---- MODULE Spec2Model ----
(***************************************************************************)
(* Cloudflare WAF MCP server: the authenticated API gateway               *)
(* (CloudflareApi), the per-request credential validation of the Worker's *)
(* fetch handler, the tool handlers registered on the MCP server, and the *)
(* Cloudflare provider they talk to.                                      *)
(*                                                                         *)
(* Text (tokens, identifiers, URLs, error messages) is a sequence of      *)
(* one-character strings, so that the regular expressions, the URL        *)
(* encoding and the substring tests of the source are computed rather     *)
(* than assumed.                                                          *)
(***************************************************************************)
EXTENDS Integers, Sequences, FiniteSets, TLC

----------------------------------------------------------------------------
(* Text helpers *)

Lower == {"a","b","c","d","e","f","g","h","i","j","k","l","m",
          "n","o","p","q","r","s","t","u","v","w","x","y","z"}

Upper == {"A","B","C","D","E","F","G","H","I","J","K","L","M",
          "N","O","P","Q","R","S","T","U","V","W","X","Y","Z"}

Digit == {"0","1","2","3","4","5","6","7","8","9"}

UpperSeq == <<"A","B","C","D","E","F","G","H","I","J","K","L","M",
              "N","O","P","Q","R","S","T","U","V","W","X","Y","Z">>

LowerSeq == <<"a","b","c","d","e","f","g","h","i","j","k","l","m",
              "n","o","p","q","r","s","t","u","v","w","x","y","z">>

\* String.prototype.toLowerCase on one character (the i flag of a regex)
ToLower(c) ==
  IF c \in Upper
  THEN LowerSeq[CHOOSE k \in 1..26 : UpperSeq[k] = c]
  ELSE c

\* n copies of the character c
Rep(c, n) == [k \in 1..n |-> c]

\* s starts with p at position i (1-based)
MatchAt(s, i, p) ==
  /\ i >= 1
  /\ i + Len(p) - 1 <= Len(s)
  /\ \A k \in 1..Len(p) : s[i + k - 1] = p[k]

\* String.prototype.startsWith
StartsWith(s, p) == MatchAt(s, 1, p)

\* String.prototype.includes
Includes(s, p) == \E i \in 1..(Len(s) - Len(p) + 1) : MatchAt(s, i, p)

\* String.prototype.slice(n) for 0 <= n
Slice(s, n) == IF n >= Len(s) THEN <<>> ELSE SubSeq(s, n + 1, Len(s))

\* the length of the longest run of characters of class cls starting at i
RunLen(s, i, cls) ==
  IF i > Len(s) \/ i < 1 THEN 0
  ELSE IF \A k \in i..Len(s) : s[k] \in cls THEN Len(s) - i + 1
  ELSE (CHOOSE k \in i..Len(s) :
          s[k] \notin cls /\ \A j \in i..(k - 1) : s[j] \in cls) - i

\* Array.prototype.join(", ")
RECURSIVE JoinComma(_)
JoinComma(msgs) ==
  IF Len(msgs) = 0 THEN <<>>
  ELSE IF Len(msgs) = 1 THEN msgs[1]
  ELSE msgs[1] \o <<",", " ">> \o JoinComma(Tail(msgs))

----------------------------------------------------------------------------
(* sanitizeErrorMessage *)

WordChar == Lower \cup Upper \cup Digit \cup {"_"}

WhiteSpace == {" "}

BearerTokenChar == Lower \cup Upper \cup Digit \cup {"_", "-"}

HexChar == Digit \cup {"a","b","c","d","e","f","A","B","C","D","E","F"}

EmailLocalChar == Lower \cup Upper \cup Digit \cup {".", "_", "%", "+", "-"}

EmailDomainChar == Lower \cup Upper \cup Digit \cup {".", "-"}

Letter == Lower \cup Upper

BEARER == <<"b","e","a","r","e","r">>

\* a faulty marker that the Bearer pattern matches again
BearerRedacted_unbracketed == <<"B","e","a","r","e","r"," ","R","E","D","A","C","T","E","D",".">>

BearerRedacted == <<"B","e","a","r","e","r"," ","[","R","E","D","A","C","T","E","D","]">>

IdRedacted == <<"[","R","E","D","A","C","T","E","D","_","I","D","]">>

EmailRedacted == <<"[","R","E","D","A","C","T","E","D","_","E","M","A","I","L","]">>

IpRedacted == <<"[","R","E","D","A","C","T","E","D","_","I","P","]">>

Ellipsis == <<".", ".", ".">>

\* the minimum length of a hex run that is redacted
HexRunMin == 32

\* the length a message is cut to
MaxMessageLen == 200

\* /Bearer\s+[a-zA-Z0-9_-]+/i at i, after ws white space and tok token characters
BearerLen(ws, tok) == IF ws >= 1 /\ tok >= 1 THEN 6 + ws + tok ELSE 0

BearerAfterWord(s, i, ws) == BearerLen(ws, RunLen(s, i + 6 + ws, BearerTokenChar))

\* length of the match of /Bearer\s+[a-zA-Z0-9_-]+/i at i, 0 when there is none
BearerMatchLen(s, i) ==
  IF /\ i + 5 <= Len(s)
     /\ \A k \in 1..6 : ToLower(s[i + k - 1]) = BEARER[k]
  THEN BearerAfterWord(s, i, RunLen(s, i + 6, WhiteSpace))
  ELSE 0

\* a faulty pattern that needs more than 32 hex digits
HexLen_longer(r) == IF r > HexRunMin THEN r ELSE 0

\* /[a-f0-9]{32,}/i for a run of r hex digits
HexLen(r) == IF r >= HexRunMin THEN r ELSE 0

\* length of the match of /[a-f0-9]{32,}/i at i, 0 when there is none
HexMatchLen(s, i) == HexLen(RunLen(s, i, HexChar))

\* a dot at p followed by at least two letters
EmailTldAt(s, p) == s[p] = "." /\ RunLen(s, p + 1, Letter) >= 2

\* the last dot in lo..hi that at least two letters follow, 0 when there is none
EmailLastDot(s, lo, hi) ==
  IF ~\E p \in lo..hi : EmailTldAt(s, p) THEN 0
  ELSE CHOOSE q \in lo..hi :
         EmailTldAt(s, q) /\ \A r \in (q + 1)..hi : ~EmailTldAt(s, r)

\* the match from i ends with the letters after the dot at p
EmailToTld(s, i, p) == IF p = 0 THEN 0 ELSE (p + RunLen(s, p + 1, Letter)) - i + 1

\* the domain starts at j and dom domain characters follow
EmailDomain(s, i, j, dom) == EmailToTld(s, i, EmailLastDot(s, j + 1, j + dom - 1))

\* loc local-part characters start at i
EmailAfterLocal(s, i, loc) ==
  IF loc >= 1 /\ i + loc <= Len(s) /\ s[i + loc] = "@"
  THEN EmailDomain(s, i, i + loc + 1, RunLen(s, i + loc + 1, EmailDomainChar))
  ELSE 0

\* length of the match of the email pattern at i, 0 when there is none:
\* [a-zA-Z0-9._%+-]+ @ [a-zA-Z0-9.-]+ \. [a-zA-Z]{2,}, each part greedy
EmailMatchLen(s, i) == EmailAfterLocal(s, i, RunLen(s, i, EmailLocalChar))

\* \b before position i, where s[i] is a word character
BoundaryBefore(s, i) == i = 1 \/ s[i - 1] \notin WordChar

\* \b after position e, where s[e] is a word character
BoundaryAfter(s, e) == e = Len(s) \/ s[e + 1] \notin WordChar

\* \d{1,3}\. at i, where r digits start: the position after the dot, else 0
IpAfterOctet(s, i, r) ==
  IF r \in 1..3 /\ i + r <= Len(s) /\ s[i + r] = "." THEN i + r + 1 ELSE 0

IpNext(s, i) == IF i = 0 THEN 0 ELSE IpAfterOctet(s, i, RunLen(s, i, Digit))

\* \d{1,3}\b at i, where r digits start: the position after them, else 0
IpAfterLast(s, i, r) ==
  IF r \in 1..3 /\ BoundaryAfter(s, i + r - 1) THEN i + r ELSE 0

IpLast(s, i) == IF i = 0 THEN 0 ELSE IpAfterLast(s, i, RunLen(s, i, Digit))

IpLen(i, e) == IF e = 0 THEN 0 ELSE e - i

\* length of the match of /\b\d{1,3}\.\d{1,3}\.\d{1,3}\.\d{1,3}\b/ at i
IpMatchLen(s, i) ==
  IF BoundaryBefore(s, i)
  THEN IpLen(i, IpLast(s, IpNext(s, IpNext(s, IpNext(s, i)))))
  ELSE 0

\* String.prototype.replace with a global regex: scan from the left, replace
\* each match, resume after it. step: 1 Bearer, 2 hex run, 3 email, 4 IPv4
StepMatchLen(step, s, i) ==
  CASE step = 1 -> BearerMatchLen(s, i)
    [] step = 2 -> HexMatchLen(s, i)
    [] step = 3 -> EmailMatchLen(s, i)
    [] step = 4 -> IpMatchLen(s, i)

StepMarker(step) ==
  CASE step = 1 -> BearerRedacted
    [] step = 2 -> IdRedacted
    [] step = 3 -> EmailRedacted
    [] step = 4 -> IpRedacted

\* the start of the first match at or after i, 0 when there is none
FirstMatch(step, s, i) ==
  IF \A k \in i..Len(s) : StepMatchLen(step, s, k) = 0 THEN 0
  ELSE CHOOSE k \in i..Len(s) :
         /\ StepMatchLen(step, s, k) > 0
         /\ \A j \in i..(k - 1) : StepMatchLen(step, s, j) = 0

RECURSIVE ReplaceFrom(_, _, _)
\* s from i on, where the first match starts at m
ReplaceAt(step, s, i, m) ==
  IF m = 0 THEN SubSeq(s, i, Len(s))
  ELSE SubSeq(s, i, m - 1) \o StepMarker(step)
         \o ReplaceFrom(step, s, m + StepMatchLen(step, s, m))

ReplaceFrom(step, s, i) ==
  IF i > Len(s) THEN <<>> ELSE ReplaceAt(step, s, i, FirstMatch(step, s, i))

ReplaceAll(step, s) == ReplaceFrom(step, s, 1)

\* a faulty sanitizer that redacts addresses before tokens and hex runs
Redact_emailFirst(message) ==
  ReplaceAll(4, ReplaceAll(2, ReplaceAll(1, ReplaceAll(3, message))))

\* the four chained .replace calls
Redact(message) == ReplaceAll(4, ReplaceAll(3, ReplaceAll(2, ReplaceAll(1, message))))

\* a faulty limit that appends the marker and cuts nothing
Truncate_uncut(s) ==
  IF Len(s) > MaxMessageLen THEN s \o Ellipsis ELSE s

\* the length limit
Truncate(s) ==
  IF Len(s) > MaxMessageLen
  THEN SubSeq(s, 1, MaxMessageLen) \o Ellipsis
  ELSE s

sanitizeErrorMessage(message) == Truncate(Redact(message))

----------------------------------------------------------------------------
(* Values *)

\* undefined, where a text is expected
NoValue == <<"undefined">>

\* String(x).length > 0 and x defined: the truthiness test `if (x)`
Truthy(x) == x # NoValue /\ Len(x) > 0

----------------------------------------------------------------------------
(* validation.ts: the identifier input contract *)

\* the number of characters of a Cloudflare identifier
IdLen == 32

HexLower == Digit \cup {"a","b","c","d","e","f"}

\* a faulty pattern without the anchors: a run of 32 anywhere in the string
CLOUDFLARE_ID_REGEX_unanchored(s) ==
  \E i \in 1..Len(s) : RunLen(s, i, HexLower) >= IdLen

\* /^[a-f0-9]{32}$/.test(s)
CLOUDFLARE_ID_REGEX(s) ==
  /\ s # NoValue
  /\ Len(s) = IdLen
  /\ \A k \in 1..Len(s) : s[k] \in HexLower

\* cloudflareIdSchema and the schemas derived from it by .describe()
cloudflareIdSchema(v) == CLOUDFLARE_ID_REGEX(v)

zoneIdSchema(v) == cloudflareIdSchema(v)

accountIdSchema(v) == cloudflareIdSchema(v)

rulesetIdSchema(v) == cloudflareIdSchema(v)

ruleIdSchema(v) == cloudflareIdSchema(v)

----------------------------------------------------------------------------
(* URL construction *)

CF_API_BASE == <<"h","t","t","p","s",":","/","/","a","p","i",".","c","l","o","u","d","f","l","a","r","e",".","c","o","m","/","c","l","i","e","n","t","/","v","4">>

CF_GRAPHQL_URL == <<"h","t","t","p","s",":","/","/","a","p","i",".","c","l","o","u","d","f","l","a","r","e",".","c","o","m","/","c","l","i","e","n","t","/","v","4","/","g","r","a","p","h","q","l">>

UriUnreserved == Lower \cup Upper \cup Digit \cup {"-", "_", ".", "!", "~", "*", "'", "(", ")"}

\* the UTF-8 percent escape of one ASCII character that is not unreserved
PercentEscape(c) ==
  CASE c = " " -> <<"%","2","0">>
    [] c = "#" -> <<"%","2","3">>
    [] c = "$" -> <<"%","2","4">>
    [] c = "%" -> <<"%","2","5">>
    [] c = "&" -> <<"%","2","6">>
    [] c = "+" -> <<"%","2","B">>
    [] c = "," -> <<"%","2","C">>
    [] c = "/" -> <<"%","2","F">>
    [] c = ":" -> <<"%","3","A">>
    [] c = ";" -> <<"%","3","B">>
    [] c = "<" -> <<"%","3","C">>
    [] c = "=" -> <<"%","3","D">>
    [] c = ">" -> <<"%","3","E">>
    [] c = "?" -> <<"%","3","F">>
    [] c = "@" -> <<"%","4","0">>
    [] c = "[" -> <<"%","5","B">>
    [] c = "]" -> <<"%","5","D">>
    [] c = "^" -> <<"%","5","E">>
    [] c = "{" -> <<"%","7","B">>
    [] c = "|" -> <<"%","7","C">>
    [] c = "}" -> <<"%","7","D">>

RECURSIVE encodeURIComponent(_)
encodeURIComponent(s) ==
  IF Len(s) = 0 THEN <<>>
  ELSE (IF Head(s) \in UriUnreserved THEN <<Head(s)>> ELSE PercentEscape(Head(s)))
         \o encodeURIComponent(Tail(s))

\* URLSearchParams serialisation of one value (application/x-www-form-urlencoded)
FormUnreserved == Lower \cup Upper \cup Digit \cup {"-", "_", ".", "*"}

RECURSIVE FormEncode(_)
FormEncode(s) ==
  IF Len(s) = 0 THEN <<>>
  ELSE (IF Head(s) \in FormUnreserved THEN <<Head(s)>>
        ELSE IF Head(s) = " " THEN <<"+">>
        ELSE IF Head(s) \in {"!", "~", "'", "(", ")"}
             THEN (CASE Head(s) = "!" -> <<"%","2","1">>
                     [] Head(s) = "~" -> <<"%","7","E">>
                     [] Head(s) = "'" -> <<"%","2","7">>
                     [] Head(s) = "(" -> <<"%","2","8">>
                     [] Head(s) = ")" -> <<"%","2","9">>)
        ELSE PercentEscape(Head(s)))
         \o FormEncode(Tail(s))

S_user == <<"/","u","s","e","r">>

S_accounts == <<"/","a","c","c","o","u","n","t","s">>

S_zones == <<"/","z","o","n","e","s">>

S_rulesets == <<"/","r","u","l","e","s","e","t","s">>

S_phases == <<"/","p","h","a","s","e","s">>

S_entrypoint == <<"/","e","n","t","r","y","p","o","i","n","t">>

S_rules == <<"/","r","u","l","e","s">>

S_accountIdParam == <<"a","c","c","o","u","n","t",".","i","d","=">>

PHASE_CUSTOM == <<"h","t","t","p","_","r","e","q","u","e","s","t","_","f","i","r","e","w","a","l","l","_","c","u","s","t","o","m">>

PHASE_MANAGED == <<"h","t","t","p","_","r","e","q","u","e","s","t","_","f","i","r","e","w","a","l","l","_","m","a","n","a","g","e","d">>

\* the endpoint of each CloudflareApi method, as its template literal builds it
UserEndpoint == S_user

AccountsEndpoint == S_accounts

ZonesEndpoint(accountId) ==
  IF Truthy(accountId)
  THEN S_zones \o <<"?">> \o S_accountIdParam \o FormEncode(accountId)
  ELSE S_zones

ZoneEndpoint(zoneId) == S_zones \o <<"/">> \o encodeURIComponent(zoneId)

RulesetsEndpoint(zoneId) == ZoneEndpoint(zoneId) \o S_rulesets

RulesetEndpoint(zoneId, rulesetId) ==
  RulesetsEndpoint(zoneId) \o <<"/">> \o encodeURIComponent(rulesetId)

EntryPointEndpoint(zoneId, phase) ==
  RulesetsEndpoint(zoneId) \o S_phases \o <<"/">> \o encodeURIComponent(phase)
    \o S_entrypoint

AccountRulesetsEndpoint(accountId) ==
  S_accounts \o <<"/">> \o encodeURIComponent(accountId) \o S_rulesets

RulesEndpoint(zoneId, rulesetId) == RulesetEndpoint(zoneId, rulesetId) \o S_rules

RuleEndpoint(zoneId, rulesetId, ruleId) ==
  RulesEndpoint(zoneId, rulesetId) \o <<"/">> \o encodeURIComponent(ruleId)

----------------------------------------------------------------------------
(* CloudflareApi: the request primitives *)

BearerPrefix == <<"B","e","a","r","e","r"," ">>

API_ERROR_PREFIX == <<"C","l","o","u","d","f","l","a","r","e"," ","A","P","I"," ","e","r","r","o","r",":"," ">>

GRAPHQL_ERROR_PREFIX == <<"G","r","a","p","h","Q","L"," ","e","r","r","o","r",":"," ">>

\* new CloudflareApi(accessToken)
CloudflareApi(accessToken) == [accessToken |-> accessToken]

NoApi == [accessToken |-> NoValue]

\* a thrown JavaScript error. raw: its message holds provider or transport text
\* that no call of sanitizeErrorMessage has processed
JsError(name, message, raw) == [name |-> name, message |-> message, raw |-> raw]

Returned(v) == [ok |-> TRUE, value |-> v]

Thrown(e) == [ok |-> FALSE, error |-> e]

\* request(): the fetch it issues
RestCall(api, method, endpoint, body) ==
  [kind |-> "rest", method |-> method, url |-> CF_API_BASE \o endpoint,
   authorization |-> BearerPrefix \o api.accessToken, body |-> body]

\* graphqlRequest(): the fetch it issues
GraphqlCall(api, query, variables) ==
  [kind |-> "graphql", method |-> "POST", url |-> CF_GRAPHQL_URL,
   authorization |-> BearerPrefix \o api.accessToken,
   body |-> [query |-> query, variables |-> variables]]

NoRequest == [kind |-> "none"]

NoBody == [none |-> TRUE]

\* data: null
NullData == [null |-> TRUE]

\* data.errors.map((e) => e.message)
ErrorMessages(errors) == [k \in 1..Len(errors) |-> errors[k].message]

request_byErrors(resp) ==
  CASE resp.t = "network" -> Thrown(JsError("TypeError", resp.message, TRUE))
    [] resp.t = "notjson" -> Thrown(JsError("SyntaxError", resp.message, TRUE))
    [] resp.t = "json" ->
         IF Len(resp.data.errors) > 0
         THEN Thrown(JsError("Error",
                API_ERROR_PREFIX
                  \o sanitizeErrorMessage(JoinComma(ErrorMessages(resp.data.errors))),
                FALSE))
         ELSE Returned(resp.data)

\* request(): what it does with the response. resp.t is "network" when fetch
\* rejected, "notjson" when response.json() rejected, "json" otherwise
request(resp) ==
  CASE resp.t = "network" -> Thrown(JsError("TypeError", resp.message, TRUE))
    [] resp.t = "notjson" -> Thrown(JsError("SyntaxError", resp.message, TRUE))
    [] resp.t = "json" ->
         IF ~resp.data.success
         THEN Thrown(JsError("Error",
                API_ERROR_PREFIX
                  \o sanitizeErrorMessage(JoinComma(ErrorMessages(resp.data.errors))),
                FALSE))
         ELSE Returned(resp.data)

graphqlRequest_dataFirst(resp) ==
  CASE resp.t = "network" -> Thrown(JsError("TypeError", resp.message, TRUE))
    [] resp.t = "notjson" -> Thrown(JsError("SyntaxError", resp.message, TRUE))
    [] resp.t = "json" ->
         IF resp.data.data = NullData /\ resp.data.errorsPresent
              /\ Len(resp.data.errors) > 0
         THEN Thrown(JsError("Error",
                GRAPHQL_ERROR_PREFIX
                  \o sanitizeErrorMessage(JoinComma(ErrorMessages(resp.data.errors))),
                FALSE))
         ELSE Returned(resp.data.data)

\* graphqlRequest(): what it does with the response
graphqlRequest(resp) ==
  CASE resp.t = "network" -> Thrown(JsError("TypeError", resp.message, TRUE))
    [] resp.t = "notjson" -> Thrown(JsError("SyntaxError", resp.message, TRUE))
    [] resp.t = "json" ->
         IF resp.data.errorsPresent /\ Len(resp.data.errors) > 0
         THEN Thrown(JsError("Error",
                GRAPHQL_ERROR_PREFIX
                  \o sanitizeErrorMessage(JoinComma(ErrorMessages(resp.data.errors))),
                FALSE))
         ELSE Returned(resp.data.data)

\* the test both createCustomRule and the list tools apply to a caught error
S_404 == <<"4","0","4">>

S_notFound == <<"n","o","t"," ","f","o","u","n","d">>

IsNotFoundError_anyError(error) == Len(error.message) >= 0

IsNotFoundError(error) ==
  Includes(error.message, S_404) \/ Includes(error.message, S_notFound)

----------------------------------------------------------------------------
(* The provider: the Cloudflare API v4 as the client sees it *)

ZONE_A == Rep("a", IdLen)

ACCOUNT_A == Rep("0", IdLen)

\* a well-formed identifier the provider never assigned
UNKNOWN_ID == Rep("f", IdLen)

NOT_HEX == <<"n","o","t","-","h","e","x">>

TOK_A == <<"t","o","k","A">>

TOK_B == <<"t","o","k","B">>

TOK_E == <<"t","o","k","E">>

ValidTokens == {TOK_A, TOK_B, TOK_E}

IdChars == <<"1","2","3","4","5","6","7","8","9","b","c","d","e">>

\* the n-th identifier the provider assigns
MkId(n) == Rep(IdChars[n], IdLen)

Ok(result) == [success |-> TRUE, errors |-> <<>>, result |-> result]

Fail(errors) == [success |-> FALSE, errors |-> errors, result |-> "null"]

ApiErr(message) == [code |-> "code", message |-> message]

M_auth == <<"A","u","t","h","e","n","t","i","c","a","t","i","o","n"," ","e","r","r","o","r">>

M_denied == <<"r","e","q","u","e","s","t"," ","f","r","o","m"," ","1","0",".","0",".","0",".","1"," ","d","e","n","i","e","d">>

M_contact == <<"c","o","n","t","a","c","t"," ","o","p","s","@","c","f",".","c","o","m">>

M_notFoundA == <<"r","u","l","e","s","e","t"," ","n","o","t"," ","f","o","u","n","d">>

M_notFoundB == <<"c","o","u","l","d"," ","n","o","t"," ","f","i","n","d"," ","e","n","t","r","y","p","o","i","n","t"," ","r","u","l","e","s","e","t">>

M_noRoute == <<"N","o"," ","r","o","u","t","e"," ","f","o","r"," ","t","h","a","t"," ","U","R","I">>

M_exists == <<"e","x","c","e","e","d","e","d"," ","m","a","x","i","m","u","m"," ","n","u","m","b","e","r"," ","o","f"," ","z","o","n","e"," ","r","u","l","e","s","e","t","s"," ","f","o","r"," ","p","h","a","s","e">>

M_network == <<"f","e","t","c","h"," ","f","a","i","l","e","d",":"," ","c","o","n","n","e","c","t"," ","1","0",".","0",".","0",".","1">>

M_notJson == <<"U","n","e","x","p","e","c","t","e","d"," ","t","o","k","e","n"," ","<"," ","i","n"," ","J","S","O","N">>

M_gql == <<"z","o","n","e"," ","0","1","2","3","4","5","6","7","8","9","a","b","c","d","e","f","0","1","2","3","4","5","6","7","8","9","a","b","c","d","e","f"," ","n","o","t"," ","a","u","t","h","o","r","i","z","e","d">>

\* a failure the provider may give on any request
GenericFailures == { <<ApiErr(M_denied), ApiErr(M_contact)>> }

\* how the provider words the absence of a resource
NotFoundFailures == { <<ApiErr(M_notFoundA)>>, <<ApiErr(M_notFoundB)>> }

\* the path of a request URL, after the API base
PathOf(url) ==
  LET from == Len(CF_API_BASE) + 1
  IN IF \A k \in from..Len(url) : url[k] # "?" THEN SubSeq(url, from, Len(url))
     ELSE SubSeq(url, from,
                 (CHOOSE k \in from..Len(url) :
                    url[k] = "?" /\ \A j \in from..(k - 1) : url[j] # "?") - 1)

\* the segments of a path that starts with "/"
RECURSIVE SegmentsFrom(_, _)
SegmentsFrom(p, i) ==
  IF i > Len(p) THEN <<>>
  ELSE LET n == IF \A k \in (i + 1)..Len(p) : p[k] # "/" THEN Len(p) + 1
                ELSE CHOOSE k \in (i + 1)..Len(p) :
                       p[k] = "/" /\ \A j \in (i + 1)..(k - 1) : p[j] # "/"
       IN <<SubSeq(p, i + 1, n - 1)>> \o SegmentsFrom(p, n)

\* the URL parser of fetch(): a "." segment is dropped and a ".." segment
\* takes the segment before it away; either leaves an empty segment when it
\* is the last one
RECURSIVE PathState(_, _)
PathState(segs, out) ==
  IF segs = <<>> THEN out
  ELSE IF Head(segs) = <<".", ".">>
  THEN PathState(Tail(segs),
                 (IF out = <<>> THEN out ELSE SubSeq(out, 1, Len(out) - 1))
                   \o (IF Len(segs) = 1 THEN << <<>> >> ELSE <<>>))
  ELSE IF Head(segs) = <<".">>
  THEN PathState(Tail(segs), out \o (IF Len(segs) = 1 THEN << <<>> >> ELSE <<>>))
  ELSE PathState(Tail(segs), Append(out, Head(segs)))

Segments(p) == PathState(SegmentsFrom(p, 1), <<>>)

Seg(text) == Slice(text, 1)

\* the indexes of the rulesets of a zone and phase, in creation order
RulesetIndexes(st, zone, phase) ==
  {k \in 1..Len(st.rulesets) :
     st.rulesets[k].zone = zone /\ st.rulesets[k].phase = phase}

MinOf(S) == CHOOSE k \in S : \A j \in S : k <= j

RulesetJson(rs) == [id |-> rs.id, phase |-> rs.phase, rules |-> rs.rules]

RuleIndexes(rs, ruleId) == {k \in 1..Len(rs.rules) : rs.rules[k].id = ruleId}

\* a PATCH body applied to a rule: only the fields it carries change
ApplyPatch(rule, body) ==
  [f \in DOMAIN rule |-> IF f \in DOMAIN body THEN body[f] ELSE rule[f]]

RemoveAt(seq, k) == [j \in 1..(Len(seq) - 1) |-> IF j < k THEN seq[j] ELSE seq[j + 1]]

\* the provider's answers to a REST request it understood: a set of
\* [data: the envelope, st: the provider's state after it]
CfRoute(r, st, segs, token) ==
  LET n    == Len(segs)
      Same(d)   == {[data |-> d, st |-> st]}
      NotFound  == {[data |-> Fail(e), st |-> st] : e \in NotFoundFailures}
      zoneKnown == n >= 2 /\ segs[1] = Seg(S_zones) /\ segs[2] = ZONE_A
      rsIdx(id) == {k \in 1..Len(st.rulesets) :
                      st.rulesets[k].zone = ZONE_A /\ st.rulesets[k].id = id}
  IN
  IF token \notin ValidTokens THEN Same(Fail(<<ApiErr(M_auth)>>))
  ELSE IF n = 1 /\ segs[1] = Seg(S_user) /\ r.method = "GET"
  THEN Same(Ok([id |-> token, email |-> token \o <<"@","c","f",".","c","o","m">>]))
  ELSE IF n = 1 /\ segs[1] = Seg(S_accounts) /\ r.method = "GET"
  THEN Same(Ok(<<[id |-> ACCOUNT_A]>>))
  ELSE IF n = 1 /\ segs[1] = Seg(S_zones) /\ r.method = "GET"
  THEN Same(Ok(<<[id |-> ZONE_A]>>))
  ELSE IF n = 3 /\ segs[1] = Seg(S_accounts) /\ segs[3] = Seg(S_rulesets)
          /\ r.method = "GET"
  THEN IF segs[2] = ACCOUNT_A THEN Same(Ok(<<>>)) ELSE NotFound
  ELSE IF n >= 2 /\ segs[1] = Seg(S_zones) /\ ~zoneKnown
  THEN NotFound
  ELSE IF n = 2 /\ zoneKnown /\ r.method = "GET"
  THEN Same(Ok([id |-> ZONE_A]))
  ELSE IF n = 3 /\ zoneKnown /\ segs[3] = Seg(S_rulesets) /\ r.method = "GET"
  THEN Same(Ok([k \in 1..Len(st.rulesets) |-> RulesetJson(st.rulesets[k])]))
  ELSE IF n = 3 /\ zoneKnown /\ segs[3] = Seg(S_rulesets) /\ r.method = "POST"
  THEN \* create a ruleset; a second one for the phase is refused or accepted
       LET created == [id |-> MkId(st.nextId), zone |-> ZONE_A,
                       phase |-> r.body.phase, rules |-> r.body.rules]
           after   == [rulesets |-> Append(st.rulesets, created),
                       nextId |-> st.nextId + 1]
           accept  == {[data |-> Ok(RulesetJson(created)), st |-> after]}
       IN IF RulesetIndexes(st, ZONE_A, r.body.phase) = {} THEN accept
          ELSE accept \cup Same(Fail(<<ApiErr(M_exists)>>))
  ELSE IF n = 6 /\ zoneKnown /\ segs[3] = Seg(S_rulesets) /\ segs[4] = Seg(S_phases)
          /\ segs[6] = Seg(S_entrypoint) /\ r.method = "GET"
  THEN LET idx == RulesetIndexes(st, ZONE_A, segs[5])
       IN IF idx = {} THEN NotFound
          ELSE Same(Ok(RulesetJson(st.rulesets[MinOf(idx)])))
  ELSE IF n = 4 /\ zoneKnown /\ segs[3] = Seg(S_rulesets) /\ r.method = "GET"
  THEN IF rsIdx(segs[4]) = {} THEN NotFound
       ELSE Same(Ok(RulesetJson(st.rulesets[MinOf(rsIdx(segs[4]))])))
  ELSE IF n = 5 /\ zoneKnown /\ segs[3] = Seg(S_rulesets) /\ segs[5] = Seg(S_rules)
          /\ r.method = "POST"
  THEN \* append a rule at the end of the ruleset
       IF rsIdx(segs[4]) = {} THEN NotFound
       ELSE LET k    == MinOf(rsIdx(segs[4]))
                rule == [id |-> MkId(st.nextId),
                         description |-> r.body.description,
                         expression |-> r.body.expression,
                         action |-> r.body.action,
                         enabled |-> r.body.enabled]
                rs   == [st.rulesets[k] EXCEPT !.rules = Append(@, rule)]
            IN {[data |-> Ok(RulesetJson(rs)),
                 st |-> [rulesets |-> [st.rulesets EXCEPT ![k] = rs],
                         nextId |-> st.nextId + 1]]}
  ELSE IF n = 6 /\ zoneKnown /\ segs[3] = Seg(S_rulesets) /\ segs[5] = Seg(S_rules)
          /\ r.method \in {"PATCH", "DELETE"}
  THEN IF rsIdx(segs[4]) = {} THEN NotFound
       ELSE LET k  == MinOf(rsIdx(segs[4]))
                ri == RuleIndexes(st.rulesets[k], segs[6])
            IN IF ri = {} THEN NotFound
               ELSE LET j  == MinOf(ri)
                        rs == IF r.method = "PATCH"
                              THEN [st.rulesets[k] EXCEPT
                                      !.rules[j] = ApplyPatch(@, r.body)]
                              ELSE [st.rulesets[k] EXCEPT
                                      !.rules = RemoveAt(@, j)]
                        \* the same ruleset, the updated rule under another id
                        renamed == [rs EXCEPT !.rules[j].id = UNKNOWN_ID]
                    IN {[data |-> Ok(RulesetJson(rs)),
                         st |-> [st EXCEPT !.rulesets[k] = rs]]}
                       \cup (IF r.method = "PATCH"
                             THEN {[data |-> Ok(RulesetJson(renamed)),
                                    st |-> [st EXCEPT !.rulesets[k] = rs]]}
                             ELSE {})
  ELSE Same(Fail(<<ApiErr(M_noRoute)>>))

\* the request's path is split and its credential read
CfHandle(r, st) ==
  CfRoute(r, st, Segments(PathOf(r.url)), Slice(r.authorization, Len(BearerPrefix)))

\* everything a REST request may come back with
CfRest(r, st) ==
  {[resp |-> [t |-> "network", message |-> M_network], st |-> st],
   [resp |-> [t |-> "notjson", message |-> M_notJson], st |-> st]}
  \cup {[resp |-> [t |-> "json", data |-> Fail(e)], st |-> st] : e \in GenericFailures}
  \cup {[resp |-> [t |-> "json", data |-> h.data], st |-> h.st] : h \in CfHandle(r, st)}

\* the provider's GraphQL data for the zone filter of a query: no zone entry,
\* a zone with nothing in the window, a zone with one item
GraphqlZones(query) ==
  CASE query = "GetSecurityEvents" ->
         { <<>>,
           <<[firewallEventsAdaptive |-> <<>>]>>,
           <<[firewallEventsAdaptive |->
                <<[action |-> "block", clientIP |-> "ip", source |-> "waf"]>>]>> }
    [] query = "GetSecuritySummary" ->
         { <<>>,
           <<[byAction |-> <<>>, bySource |-> <<>>, byCountry |-> <<>>]>>,
           <<[byAction  |-> <<[count |-> "n", dimensions |-> [action |-> "block"]]>>,
              bySource  |-> <<[count |-> "n", dimensions |-> [source |-> "waf"]]>>,
              byCountry |-> <<[count |-> "n",
                               dimensions |-> [clientCountryName |-> "XX"]]>>]>> }
    [] query = "GetTopAttackedPaths" ->
         { <<>>,
           <<[firewallEventsAdaptiveGroups |-> <<>>]>>,
           <<[firewallEventsAdaptiveGroups |->
                <<[count |-> "n", dimensions |-> [clientRequestPath |-> "/login"]]>>]>> }

\* everything a GraphQL request may come back with
CfGraphql(r) ==
  {[t |-> "network", message |-> M_network],
   [t |-> "notjson", message |-> M_notJson],
   [t |-> "json",
    data |-> [data |-> NullData, errorsPresent |-> TRUE,
              errors |-> <<[message |-> M_gql]>>]]}
  \cup {[t |-> "json",
         data |-> [data |-> [viewer |-> [zones |-> z]], errorsPresent |-> FALSE,
                   errors |-> <<>>]] : z \in GraphqlZones(r.body.query)}

----------------------------------------------------------------------------
(* CloudflareApi: the business methods, each as the request it issues and    *)
(* what it makes of the primitive's return value                            *)

listAccounts(api) == RestCall(api, "GET", AccountsEndpoint, NoBody)

listZones(api, accountId) == RestCall(api, "GET", ZonesEndpoint(accountId), NoBody)

getZone(api, zoneId) == RestCall(api, "GET", ZoneEndpoint(zoneId), NoBody)

listRulesets(api, zoneId) == RestCall(api, "GET", RulesetsEndpoint(zoneId), NoBody)

getRuleset(api, zoneId, rulesetId) ==
  RestCall(api, "GET", RulesetEndpoint(zoneId, rulesetId), NoBody)

getEntryPointRuleset(api, zoneId, phase) ==
  RestCall(api, "GET", EntryPointEndpoint(zoneId, phase), NoBody)

listAccountRulesets(api, accountId) ==
  RestCall(api, "GET", AccountRulesetsEndpoint(accountId), NoBody)

getUserInfo(api) == RestCall(api, "GET", UserEndpoint, NoBody)

\* createCustomRule: the POST that creates the missing ruleset
CreateRulesetCall(api, zoneId) ==
  RestCall(api, "POST", RulesetsEndpoint(zoneId),
           [name |-> "Custom Firewall Rules", kind |-> "zone",
            phase |-> PHASE_CUSTOM, rules |-> <<>>])

\* createCustomRule: the POST that appends the rule
AppendRuleCall(api, zoneId, rulesetId, rule) ==
  RestCall(api, "POST", RulesEndpoint(zoneId, rulesetId), rule)

\* a faulty return value: the first rule of the append response
LastRule_first(rules) == rules[1]

\* createCustomRule: its return value, from the append response
LastRule(rules) == rules[Len(rules)]

updateCustomRule(api, zoneId, rulesetId, ruleId, updates) ==
  RestCall(api, "PATCH", RuleEndpoint(zoneId, rulesetId, ruleId), updates)

M_updatedNotFound == <<"U","p","d","a","t","e","d"," ","r","u","l","e"," ","n","o","t"," ","f","o","u","n","d"," ","i","n"," ","r","e","s","p","o","n","s","e">>

\* a faulty updateCustomRule that takes the last rule of the response when no
\* rule has the id
FindUpdatedRule_last(rules, ruleId) ==
  LET hits == {k \in 1..Len(rules) : rules[k].id = ruleId}
  IN IF rules = <<>> THEN Thrown(JsError("Error", M_updatedNotFound, FALSE))
     ELSE IF hits = {} THEN Returned(rules[Len(rules)])
     ELSE Returned(rules[MinOf(hits)])

\* updateCustomRule: response.result.rules.find((r) => r.id === ruleId)
FindUpdatedRule(rules, ruleId) ==
  LET hits == {k \in 1..Len(rules) : rules[k].id = ruleId}
  IN IF hits = {} THEN Thrown(JsError("Error", M_updatedNotFound, FALSE))
     ELSE Returned(rules[MinOf(hits)])

deleteCustomRule(api, zoneId, rulesetId, ruleId) ==
  RestCall(api, "DELETE", RuleEndpoint(zoneId, rulesetId, ruleId), NoBody)

getSecurityEvents(api, zoneTag, startTime, endTime, limit) ==
  GraphqlCall(api, "GetSecurityEvents",
              [zoneTag |-> zoneTag, start |-> startTime, end |-> endTime,
               limit |-> limit])

\* result.viewer.zones[0]?.firewallEventsAdaptive || []
SecurityEventsOf(result) ==
  IF Len(result.viewer.zones) = 0 THEN <<>>
  ELSE result.viewer.zones[1].firewallEventsAdaptive

getSecurityEventsSummary(api, zoneTag, startTime, endTime) ==
  GraphqlCall(api, "GetSecuritySummary",
              [zoneTag |-> zoneTag, start |-> startTime, end |-> endTime])

\* a faulty mapping that reads the groups of a zone entry that is not there
SecurityEventsSummaryOf_unguarded(result) ==
  IF Len(result.viewer.zones) = 0
  THEN [byAction |-> <<"undefined">>, bySource |-> <<"undefined">>,
        byCountry |-> <<"undefined">>]
  ELSE [byAction |-> <<>>, bySource |-> <<>>, byCountry |-> <<>>]

SecurityEventsSummaryOf(result) ==
  IF Len(result.viewer.zones) = 0
  THEN [byAction |-> <<>>, bySource |-> <<>>, byCountry |-> <<>>]
  ELSE LET zone == result.viewer.zones[1]
       IN [byAction |-> [k \in 1..Len(zone.byAction) |->
                           [action |-> zone.byAction[k].dimensions.action,
                            count |-> zone.byAction[k].count]],
           bySource |-> [k \in 1..Len(zone.bySource) |->
                           [source |-> zone.bySource[k].dimensions.source,
                            count |-> zone.bySource[k].count]],
           byCountry |-> [k \in 1..Len(zone.byCountry) |->
                           [country |-> zone.byCountry[k].dimensions.clientCountryName,
                            count |-> zone.byCountry[k].count]]]

\* getSecurityEventsSummary: what it returns or throws, given what
\* graphqlRequest returned or threw
SecurityEventsSummaryReturn(res) ==
  IF res.ok THEN Returned(SecurityEventsSummaryOf(res.value)) ELSE res

getTopAttackedPaths(api, zoneTag, startTime, endTime, limit) ==
  GraphqlCall(api, "GetTopAttackedPaths",
              [zoneTag |-> zoneTag, start |-> startTime, end |-> endTime,
               limit |-> limit])

TopAttackedPathsOf(result) ==
  IF Len(result.viewer.zones) = 0 THEN <<>>
  ELSE LET groups == result.viewer.zones[1].firewallEventsAdaptiveGroups
       IN [k \in 1..Len(groups) |->
             [path |-> groups[k].dimensions.clientRequestPath,
              count |-> groups[k].count]]

----------------------------------------------------------------------------
(* The Worker: sessions, the fetch handler, the MCP tools *)

\* the sessions (one Durable Object each) that talk to the Worker
Sessions == {"s1", "s2"}

\* the number of inbound /mcp requests the Worker receives in all
MaxInbound == 2

VARIABLES
  envToken,   \* env.CLOUDFLARE_API_TOKEN
  session,    \* per session: the inbound request being served and its locals
  cf,         \* the provider's state: its rulesets and the next id it assigns
  inbound,    \* the number of inbound requests received so far
  response,   \* the response the Worker is sending, until it is delivered
  arg,        \* a pure function of the code called on its own: its argument
  ret         \* and what it returned

vars == <<envToken, session, cf, inbound, response, arg, ret>>

\* no pure function is being called on its own
NoArg == [fn |-> "none"]

NoRet == [fn |-> "none"]

\* the token a session's client puts in its Authorization header
HeaderToken(s) == IF s = "s1" THEN TOK_A ELSE TOK_B

\* request.headers.get("Authorization"): absent, or the client's Bearer token
AuthHeaders(s) == {NoValue, BearerPrefix \o HeaderToken(s)}

\* env.CLOUDFLARE_API_TOKEN: unset, a plain token, a token with the prefix
EnvTokens == {NoValue, TOK_E, BearerPrefix \o TOK_E}

\* a faulty selection that prefers the environment token
SelectToken_envFirst(authHeader, env) ==
  IF Truthy(env)
  THEN (IF StartsWith(env, BearerPrefix) THEN Slice(env, 7) ELSE env)
  ELSE IF authHeader # NoValue /\ StartsWith(authHeader, BearerPrefix)
       THEN Slice(authHeader, 7)
       ELSE NoValue

\* fetch(): the token it extracts
SelectToken(authHeader, env) ==
  IF authHeader # NoValue /\ StartsWith(authHeader, BearerPrefix)
  THEN Slice(authHeader, 7)
  ELSE IF Truthy(env)
       THEN (IF StartsWith(env, BearerPrefix) THEN Slice(env, 7) ELSE env)
       ELSE NoValue

\* ctx.props: undefined, or the user context fetch() builds
NoProps == [defined |-> FALSE, userId |-> NoValue, email |-> NoValue,
            accessToken |-> NoValue]

MkProps(userInfo, token) ==
  [defined |-> TRUE, userId |-> userInfo.id, email |-> userInfo.email,
   accessToken |-> token]

NoError == [name |-> "none", message |-> <<>>, raw |-> FALSE]

NoOutcome == [kind |-> "none"]

NoJson == "none"

\* what a tool call ends with: the handler returned { content: [{ type:
\* "text", text }] } (text: a fixed or failure text, json: the value it
\* serialises after it; raw: the text holds provider or transport text no
\* sanitizeErrorMessage call processed), the handler threw, or the input
\* contract refused the arguments before the handler ran
TextResult(text, json, raw) ==
  [kind |-> "returned", type |-> "text", text |-> text, json |-> json, raw |-> raw]

ThrownResult(error) == [kind |-> "thrown", error |-> error]

RejectedResult == [kind |-> "rejected"]

\* a tool call: the tool's name and its arguments
Call(tool) ==
  [tool |-> tool, zoneId |-> NoValue, accountId |-> NoValue, rulesetId |-> NoValue,
   ruleId |-> NoValue, body |-> NoBody, minutes |-> 0, limit |-> 0,
   actionType |-> "none"]

NoCall == Call("none")

IdleSession ==
  [pc |-> "idle", authHeader |-> NoValue, props |-> NoProps, api |-> NoApi,
   wire |-> NoRequest, call |-> NoCall, rulesetId |-> NoValue,
   outcome |-> NoOutcome, issued |-> <<>>, logged |-> NoError,
   apiThrown |-> NoError, appendedId |-> NoValue, userInfoCalls |-> 0]

\* no response is being sent
NoResponse == [session |-> "none", served |-> IdleSession]

ReadTools == {"list_accounts", "list_zones", "get_zone", "get_ruleset",
              "list_all_rulesets", "list_account_rulesets"}

EntryPointTools == {"list_custom_rules", "list_managed_rulesets"}

AnalyticsTools == {"get_security_events", "get_attack_summary",
                   "get_top_attacked_paths"}

UpdateTools == {"update_custom_rule", "toggle_rule"}

Tools == ReadTools \cup EntryPointTools \cup AnalyticsTools \cup UpdateTools
           \cup {"create_custom_rule", "delete_custom_rule",
                 "suggest_rule_from_events"}

\* the arguments clients send
ZoneInputs == {ZONE_A, NOT_HEX}

AccountInputs == {ACCOUNT_A, NOT_HEX}

\* the ids of the provider's rulesets and rules, or an id it does not know:
\* one it never assigned, or that of a rule that was deleted
RulesetInputs(st) ==
  LET known == {st.rulesets[k].id : k \in 1..Len(st.rulesets)}
  IN IF known = {} THEN {UNKNOWN_ID} ELSE known

\* the id of the first rule of the zone, which the zone may hold no more
FormerRuleId == MkId(2)

RuleInputs(st) ==
  LET known == UNION {{st.rulesets[k].rules[j].id : j \in 1..Len(st.rulesets[k].rules)} :
                        k \in 1..Len(st.rulesets)}
  IN IF known # {} THEN known
     ELSE {UNKNOWN_ID} \cup (IF st.nextId > 2 THEN {FormerRuleId} ELSE {})

\* zone and ruleset id arguments: well-formed ones, and one malformed at a time
RulesetArgs(st) ==
  {<<ZONE_A, r>> : r \in RulesetInputs(st)}
    \cup {<<NOT_HEX, UNKNOWN_ID>>, <<ZONE_A, NOT_HEX>>}

\* zone, ruleset and rule id arguments
RuleArgs(st) ==
  {<<ZONE_A, r, i>> : r \in RulesetInputs(st), i \in RuleInputs(st)}
    \cup {<<NOT_HEX, UNKNOWN_ID, UNKNOWN_ID>>, <<ZONE_A, NOT_HEX, UNKNOWN_ID>>,
          <<ZONE_A, UNKNOWN_ID, NOT_HEX>>}

D_1 == <<"d","1">>

D_2 == <<"d","2">>

E_1 == <<"e","1">>

RuleInputs_create == {[description |-> D_1, expression |-> E_1, action |-> "block",
                       enabled |-> TRUE]}

\* an optional argument: supplied with a value, or left out
Supplied(v) == <<v>>

Omitted == <<>>

\* update_custom_rule's optional arguments: a new description only, and
\* enabled = false only
UpdateInputs ==
  {[description |-> Supplied(D_2), expression |-> Omitted, action |-> Omitted,
    enabled |-> Omitted],
   [description |-> Omitted, expression |-> Omitted, action |-> Omitted,
    enabled |-> Supplied(FALSE)]}

\* minutes and limit: the schema defaults
DefaultMinutes == 60

DefaultEventsLimit == 100

DefaultPathsLimit == 10

MinMinutes == 1

MaxMinutes == 1440

\* Date.now() readings, in milliseconds
ClockReadings == {86400000}

ToolCalls(st) ==
  {Call("list_accounts")}
  \cup {[Call("list_zones") EXCEPT !.accountId = a] : a \in AccountInputs \cup {NoValue}}
  \cup {[Call(tl) EXCEPT !.zoneId = z] :
          tl \in {"get_zone", "list_all_rulesets"} \cup EntryPointTools, z \in ZoneInputs}
  \cup {[Call("get_ruleset") EXCEPT !.zoneId = a[1], !.rulesetId = a[2]] :
          a \in RulesetArgs(st)}
  \cup {[Call("list_account_rulesets") EXCEPT !.accountId = a] : a \in AccountInputs}
  \cup {[Call("create_custom_rule") EXCEPT !.zoneId = z, !.body = b] :
          z \in ZoneInputs, b \in RuleInputs_create}
  \cup {[Call("update_custom_rule") EXCEPT !.zoneId = a[1], !.rulesetId = a[2],
                                           !.ruleId = a[3], !.body = b] :
          a \in RuleArgs(st), b \in UpdateInputs}
  \cup {[Call("toggle_rule") EXCEPT !.zoneId = a[1], !.rulesetId = a[2],
                                    !.ruleId = a[3], !.body = [enabled |-> e]] :
          a \in RuleArgs(st), e \in BOOLEAN}
  \cup {[Call("delete_custom_rule") EXCEPT !.zoneId = a[1], !.rulesetId = a[2],
                                           !.ruleId = a[3]] :
          a \in RuleArgs(st)}
  \cup {[Call("get_security_events") EXCEPT !.zoneId = z, !.minutes = DefaultMinutes,
                                            !.limit = DefaultEventsLimit] :
          z \in ZoneInputs}
  \cup {[Call("get_attack_summary") EXCEPT !.zoneId = z, !.minutes = DefaultMinutes] :
          z \in ZoneInputs}
  \cup {[Call("get_top_attacked_paths") EXCEPT !.zoneId = z, !.minutes = DefaultMinutes,
                                               !.limit = DefaultPathsLimit] :
          z \in ZoneInputs}
  \cup {[Call("suggest_rule_from_events") EXCEPT !.zoneId = z,
                                                 !.minutes = DefaultMinutes,
                                                 !.actionType = "block"] :
          z \in ZoneInputs}

\* the identifier fields of each tool's input schema
ZoneIdTools == Tools \ {"list_accounts", "list_zones", "list_account_rulesets"}

RulesetIdTools == {"get_ruleset", "update_custom_rule", "delete_custom_rule",
                   "toggle_rule"}

RuleIdTools == {"update_custom_rule", "delete_custom_rule", "toggle_rule"}

MinutesTools == AnalyticsTools \cup {"suggest_rule_from_events"}

\* the input schema of the tool, applied to the arguments before the handler runs
InputContract(c) ==
  /\ c.tool \in ZoneIdTools => zoneIdSchema(c.zoneId)
  /\ c.tool = "list_zones" => (c.accountId = NoValue \/ accountIdSchema(c.accountId))
  /\ c.tool = "list_account_rulesets" => accountIdSchema(c.accountId)
  /\ c.tool \in RulesetIdTools => rulesetIdSchema(c.rulesetId)
  /\ c.tool \in RuleIdTools => ruleIdSchema(c.ruleId)
  /\ c.tool \in MinutesTools => (c.minutes >= MinMinutes /\ c.minutes <= MaxMinutes)

----------------------------------------------------------------------------
(* The tool handlers: what each does with the value or error of its await *)

M_undefinedProps == <<"C","a","n","n","o","t"," ","r","e","a","d"," ","p","r","o","p","e","r","t","i","e","s"," ","o","f"," ","u","n","d","e","f","i","n","e","d"," ","(","r","e","a","d","i","n","g"," ","'","a","c","c","e","s","s","T","o","k","e","n","'",")">>

\* a faulty getApi: one client for the whole process, built from the props of
\* the first session
getApi_shared(s) ==
  IF session[s].props.defined
  THEN Returned(CloudflareApi(session["s1"].props.accessToken))
  ELSE Thrown(JsError("TypeError", M_undefinedProps, FALSE))

\* getApi = () => new CloudflareApi(this.props!.accessToken)
getApi(s) ==
  IF session[s].props.defined
  THEN Returned(CloudflareApi(session[s].props.accessToken))
  ELSE Thrown(JsError("TypeError", M_undefinedProps, FALSE))

T_createOk == <<"S","u","c","c","e","s","s","f","u","l","l","y"," ","c","r","e","a","t","e","d"," ","c","u","s","t","o","m"," ","r","u","l","e",".">>

T_updateOk == <<"S","u","c","c","e","s","s","f","u","l","l","y"," ","u","p","d","a","t","e","d"," ","r","u","l","e",".">>

T_deleteOk == <<"S","u","c","c","e","s","s","f","u","l","l","y"," ","d","e","l","e","t","e","d"," ","r","u","l","e"," ">>

T_enabledOk == <<"S","u","c","c","e","s","s","f","u","l","l","y"," ","e","n","a","b","l","e","d"," ","r","u","l","e"," ">>

T_disabledOk == <<"S","u","c","c","e","s","s","f","u","l","l","y"," ","d","i","s","a","b","l","e","d"," ","r","u","l","e"," ">>

T_noEvents == <<"N","o"," ","s","e","c","u","r","i","t","y"," ","e","v","e","n","t","s"," ","f","o","u","n","d"," ","i","n"," ","t","h","e"," ","s","p","e","c","i","f","i","e","d"," ","t","i","m","e"," ","p","e","r","i","o","d",".">>

T_analyzed == <<"A","n","a","l","y","z","e","d"," ","s","e","c","u","r","i","t","y"," ","e","v","e","n","t","s",".">>

T_createFailed == <<"F","a","i","l","e","d"," ","t","o"," ","c","r","e","a","t","e"," ","r","u","l","e",":"," ">>

T_updateFailed == <<"F","a","i","l","e","d"," ","t","o"," ","u","p","d","a","t","e"," ","r","u","l","e",":"," ">>

T_deleteFailed == <<"F","a","i","l","e","d"," ","t","o"," ","d","e","l","e","t","e"," ","r","u","l","e",":"," ">>

T_toggleFailed == <<"F","a","i","l","e","d"," ","t","o"," ","t","o","g","g","l","e"," ","r","u","l","e",":"," ">>

T_analyzeFailed == <<"F","a","i","l","e","d"," ","t","o"," ","a","n","a","l","y","z","e"," ","e","v","e","n","t","s",":"," ">>

\* the catch block of a write tool: the failure as text, sanitised
CatchText(prefix, error) ==
  TextResult(prefix \o sanitizeErrorMessage(error.message), NoJson, FALSE)

\* the handler is over: it returned or threw
Done(l, outcome) == [l EXCEPT !.pc = "done", !.wire = NoRequest, !.outcome = outcome]

\* the handler awaits the next request of a CloudflareApi method
Issue(l, pc, r, name) ==
  [l EXCEPT !.pc = pc, !.wire = r,
            !.issued = Append(@, [name |-> name, request |-> r])]

\* a CloudflareApi method threw error
ApiThrew(l, error) == [l EXCEPT !.apiThrown = error]

\* new Date(t) for the time value t = num / den ms: TimeClip cuts it to
\* whole milliseconds, towards zero
TimeClip(num, den) ==
  IF num >= 0 THEN num \div den ELSE 0 - ((0 - num) \div den)

\* Date.prototype.toISOString: the date as days since the epoch, and the time
\* of day to the millisecond
toISOString(t) ==
  [day |-> t \div 86400000, hour |-> (t \div 3600000) % 24,
   minute |-> (t \div 60000) % 60, second |-> (t \div 1000) % 60,
   ms |-> t % 1000]

\* a faulty window that takes the minutes for seconds
TimeRange_seconds(num, den, now) ==
  [startTime |-> toISOString(TimeClip(now * den - num * 1000, den)),
   endTime |-> toISOString(now)]

\* getTimeRange(minutes) for minutes = num / den, with the one clock reading
\* now it takes (ms): new Date(endTime.getTime() - minutes * 60 * 1000)
TimeRange(num, den, now) ==
  [startTime |-> toISOString(TimeClip(now * den - num * 60 * 1000, den)),
   endTime |-> toISOString(now)]

\* getTimeRange(minutes) for a whole number of minutes
getTimeRange(minutes, now) == TimeRange(minutes, 1, now)

\* the CloudflareApi method a tool's handler calls first
FirstMethod(tool) ==
  CASE tool = "list_accounts" -> "listAccounts"
    [] tool = "list_zones" -> "listZones"
    [] tool = "get_zone" -> "getZone"
    [] tool = "get_ruleset" -> "getRuleset"
    [] tool = "list_all_rulesets" -> "listRulesets"
    [] tool = "list_account_rulesets" -> "listAccountRulesets"
    [] tool \in EntryPointTools -> "getEntryPointRuleset"
    [] tool = "create_custom_rule" -> "getEntryPointRuleset"
    [] tool \in UpdateTools -> "updateCustomRule"
    [] tool = "delete_custom_rule" -> "deleteCustomRule"
    [] tool = "get_security_events" -> "getSecurityEvents"
    [] tool = "suggest_rule_from_events" -> "getSecurityEvents"
    [] tool = "get_attack_summary" -> "getSecurityEventsSummary"
    [] tool = "get_top_attacked_paths" -> "getTopAttackedPaths"

\* a faulty update_custom_rule that sends all four fields, null for those
\* left out
BuildUpdates_all(b) ==
  [f \in DOMAIN b |-> IF b[f] = Omitted THEN NoValue ELSE b[f][1]]

\* update_custom_rule: the updates object gets the arguments that are not
\* undefined
BuildUpdates(b) ==
  [f \in {g \in DOMAIN b : b[g] # Omitted} |-> b[f][1]]

\* a faulty toggle_rule that sends an empty description with enabled
ToggleUpdates_described(b) == [enabled |-> b.enabled, description |-> <<>>]

\* toggle_rule: { enabled }
ToggleUpdates(b) == [enabled |-> b.enabled]

\* the request that method issues
FirstRequest(api, c, now) ==
  LET w == getTimeRange(c.minutes, now)
  IN CASE c.tool = "list_accounts" -> listAccounts(api)
       [] c.tool = "list_zones" -> listZones(api, c.accountId)
       [] c.tool = "get_zone" -> getZone(api, c.zoneId)
       [] c.tool = "get_ruleset" -> getRuleset(api, c.zoneId, c.rulesetId)
       [] c.tool = "list_all_rulesets" -> listRulesets(api, c.zoneId)
       [] c.tool = "list_account_rulesets" -> listAccountRulesets(api, c.accountId)
       [] c.tool = "list_custom_rules" ->
            getEntryPointRuleset(api, c.zoneId, PHASE_CUSTOM)
       [] c.tool = "list_managed_rulesets" ->
            getEntryPointRuleset(api, c.zoneId, PHASE_MANAGED)
       [] c.tool = "create_custom_rule" ->
            getEntryPointRuleset(api, c.zoneId, PHASE_CUSTOM)
       [] c.tool = "update_custom_rule" ->
            updateCustomRule(api, c.zoneId, c.rulesetId, c.ruleId,
                             BuildUpdates(c.body))
       [] c.tool = "toggle_rule" ->
            updateCustomRule(api, c.zoneId, c.rulesetId, c.ruleId,
                             ToggleUpdates(c.body))
       [] c.tool = "delete_custom_rule" ->
            deleteCustomRule(api, c.zoneId, c.rulesetId, c.ruleId)
       [] c.tool = "get_security_events" ->
            getSecurityEvents(api, c.zoneId, w.startTime, w.endTime, c.limit)
       [] c.tool = "suggest_rule_from_events" ->
            getSecurityEvents(api, c.zoneId, w.startTime, w.endTime, 100)
       [] c.tool = "get_attack_summary" ->
            getSecurityEventsSummary(api, c.zoneId, w.startTime, w.endTime)
       [] c.tool = "get_top_attacked_paths" ->
            getTopAttackedPaths(api, c.zoneId, w.startTime, w.endTime, c.limit)

\* list_accounts, list_zones, get_zone, get_ruleset, list_all_rulesets,
\* list_account_rulesets: no try/catch around the await
AfterRead(l, res) ==
  IF res.ok
  THEN Done(l, TextResult(<<>>, res.value.result, FALSE))
  ELSE Done(ApiThrew(l, res.error), ThrownResult(res.error))

\* a faulty list handler for which every error is an empty list
AfterListEntryPoint_allEmpty(l, res) ==
  IF res.ok
  THEN Done(l, TextResult(<<>>, res.value.result, FALSE))
  ELSE Done(ApiThrew(l, res.error),
            TextResult(<<>>, [rules |-> <<>>, message |-> "none configured"],
                       FALSE))

\* list_custom_rules, list_managed_rulesets: a not-found error becomes an
\* empty list, any other error is rethrown
AfterListEntryPoint(l, res) ==
  IF res.ok
  THEN Done(l, TextResult(<<>>, res.value.result, FALSE))
  ELSE IF IsNotFoundError(res.error)
       THEN Done(ApiThrew(l, res.error),
                 TextResult(<<>>, [rules |-> <<>>, message |-> "none configured"],
                            FALSE))
       ELSE Done(ApiThrew(l, res.error), ThrownResult(res.error))

\* get_security_events, get_attack_summary, get_top_attacked_paths: no
\* try/catch around the await
AfterAnalytics(l, res) ==
  IF res.ok
  THEN Done(l, TextResult(<<>>,
              CASE l.call.tool = "get_security_events" -> SecurityEventsOf(res.value)
                [] l.call.tool = "get_attack_summary" ->
                     SecurityEventsSummaryOf(res.value)
                [] l.call.tool = "get_top_attacked_paths" ->
                     TopAttackedPathsOf(res.value),
              FALSE))
  ELSE Done(ApiThrew(l, res.error), ThrownResult(res.error))

\* suggest_rule_from_events: the pattern analysis of the events is not
\* modelled beyond their number
AfterSuggest(l, res) ==
  IF res.ok
  THEN IF Len(SecurityEventsOf(res.value)) = 0
       THEN Done(l, TextResult(T_noEvents, NoJson, FALSE))
       ELSE Done(l, TextResult(T_analyzed, Len(SecurityEventsOf(res.value)), FALSE))
  ELSE Done(ApiThrew(l, res.error), CatchText(T_analyzeFailed, res.error))

\* create_custom_rule: createCustomRule threw, the handler's catch block runs
CreateFailed(l, error) == Done(ApiThrew(l, error), CatchText(T_createFailed, error))

\* createCustomRule after getEntryPointRuleset
AfterEntryPoint(l, res) ==
  IF res.ok
  THEN Issue([l EXCEPT !.rulesetId = res.value.result.id], "cr_append",
             AppendRuleCall(l.api, l.call.zoneId, res.value.result.id, l.call.body),
             "appendRule")
  ELSE IF IsNotFoundError(res.error)
       THEN Issue(ApiThrew(l, res.error), "cr_create",
                  CreateRulesetCall(l.api, l.call.zoneId), "createRuleset")
       ELSE CreateFailed(l, res.error)

\* a faulty createCustomRule that repeats a failed ruleset creation once
AfterCreateRuleset_retry(l, res) ==
  IF res.ok
  THEN Issue([l EXCEPT !.rulesetId = res.value.result.id], "cr_append",
             AppendRuleCall(l.api, l.call.zoneId, res.value.result.id, l.call.body),
             "appendRule")
  ELSE IF Len(l.issued) < 4
       THEN Issue(ApiThrew(l, res.error), "cr_create", l.wire, "createRuleset")
       ELSE CreateFailed(l, res.error)

\* createCustomRule after the POST that creates the ruleset
AfterCreateRuleset(l, res) ==
  IF res.ok
  THEN Issue([l EXCEPT !.rulesetId = res.value.result.id], "cr_append",
             AppendRuleCall(l.api, l.call.zoneId, res.value.result.id, l.call.body),
             "appendRule")
  ELSE CreateFailed(l, res.error)

\* a faulty createCustomRule that repeats a failed append once
AfterAppend_retry(l, res) ==
  IF res.ok
  THEN Done(l, TextResult(T_createOk, LastRule(res.value.result.rules), FALSE))
  ELSE IF Len(l.issued) < 5
       THEN Issue(l, "cr_append", l.wire, "appendRule")
       ELSE CreateFailed(l, res.error)

\* createCustomRule after the POST that appends the rule
AfterAppend(l, res) ==
  IF res.ok
  THEN Done(l, TextResult(T_createOk, LastRule(res.value.result.rules), FALSE))
  ELSE CreateFailed(l, res.error)

\* update_custom_rule and toggle_rule after updateCustomRule's PATCH
AfterUpdate(l, res) ==
  LET prefix == IF l.call.tool = "toggle_rule" THEN T_toggleFailed ELSE T_updateFailed
      found  == FindUpdatedRule(res.value.result.rules, l.call.ruleId)
  IN IF ~res.ok THEN Done(ApiThrew(l, res.error), CatchText(prefix, res.error))
     ELSE IF ~found.ok
     THEN Done(ApiThrew(l, found.error), CatchText(prefix, found.error))
     ELSE IF l.call.tool = "toggle_rule"
     THEN Done(l, TextResult((IF l.call.body.enabled THEN T_enabledOk
                              ELSE T_disabledOk) \o l.call.ruleId, NoJson, FALSE))
     ELSE Done(l, TextResult(T_updateOk, found.value, FALSE))

\* a faulty delete_custom_rule that reports success whatever the answer
AfterDelete_silent(l, res) ==
  IF res.ok
  THEN Done(l, TextResult(T_deleteOk \o l.call.ruleId, NoJson, FALSE))
  ELSE Done(ApiThrew(l, res.error),
            TextResult(T_deleteOk \o l.call.ruleId, NoJson, FALSE))

\* delete_custom_rule after deleteCustomRule's DELETE
AfterDelete(l, res) ==
  IF res.ok
  THEN Done(l, TextResult(T_deleteOk \o l.call.ruleId, NoJson, FALSE))
  ELSE Done(ApiThrew(l, res.error), CatchText(T_deleteFailed, res.error))

\* fetch() after the getUserInfo it awaits: the props it passes on, and the
\* console.error of a failed validation
AfterValidation(l, res) ==
  IF res.ok
  THEN [l EXCEPT !.pc = "dispatch", !.wire = NoRequest, !.api = NoApi,
                 !.props = MkProps(res.value.result,
                                   SelectToken(l.authHeader, envToken))]
  ELSE [l EXCEPT !.pc = "dispatch", !.wire = NoRequest, !.api = NoApi,
                 !.props = NoProps, !.logged = res.error, !.apiThrown = res.error]

----------------------------------------------------------------------------
(* The state machine *)

(* fetch() and each tool handler that issues one provider request are one    *)
(* action each, the provider's processing of the request included: the      *)
(* request is the only point at which such a handler meets shared state.    *)
(* createCustomRule issues up to three requests, and is one action per      *)
(* await. A response stays in the variable response until it is delivered.  *)

\* the zone as the provider has it at the start: without rulesets, or with an
\* entry-point ruleset of the custom-rule phase that holds one disabled rule
FreshZone == [rulesets |-> <<>>, nextId |-> 1]

ZoneWithRule ==
  [rulesets |->
     <<[id |-> MkId(1), zone |-> ZONE_A, phase |-> PHASE_CUSTOM,
        rules |-> <<[id |-> MkId(2), description |-> D_1, expression |-> E_1,
                     action |-> "block", enabled |-> FALSE]>>]>>,
   nextId |-> 3]

Init ==
  /\ envToken \in EnvTokens
  /\ session = [s \in Sessions |-> IdleSession]
  /\ cf = FreshZone
  /\ inbound = 0
  /\ response = NoResponse
  /\ arg = NoArg
  /\ ret = NoRet

Quiet == response.session = "none"

\* the handler of session s went on to l: it awaits again, or it is over and
\* its result is sent
Settle(s, l) ==
  IF l.pc = "done"
  THEN /\ session' = [session EXCEPT ![s] =
            [IdleSession EXCEPT !.userInfoCalls = l.userInfoCalls]]
       /\ response' = [session |-> s, served |-> l]
  ELSE /\ session' = [session EXCEPT ![s] = l]
       /\ response' = response

\* fetch(): an inbound /mcp request arrives; the token is extracted and, when
\* there is one, validated with getUserInfo; the request goes on to the agent
InboundRequest(s) ==
  /\ Quiet
  /\ session[s].pc = "idle"
  /\ inbound < MaxInbound
  /\ inbound' = inbound + 1
  /\ \E h \in AuthHeaders(s) :
       LET token == SelectToken(h, envToken)
           l == [session[s] EXCEPT !.authHeader = h]
       IN IF Truthy(token)
          THEN \E o \in CfRest(getUserInfo(CloudflareApi(token)), cf) :
                 /\ session' = [session EXCEPT ![s] =
                      AfterValidation(
                        Issue([l EXCEPT !.userInfoCalls = @ + 1], "validating",
                              getUserInfo(CloudflareApi(token)), "getUserInfo"),
                        request(o.resp))]
                 /\ cf' = o.st
          ELSE /\ session' = [session EXCEPT ![s] =
                    [l EXCEPT !.pc = "dispatch", !.props = NoProps]]
               /\ cf' = cf
  /\ UNCHANGED <<arg, ret, envToken, response>>

\* the tool call's arguments fail the tool's input schema: the handler is not run
RejectInput(s) ==
  /\ Quiet
  /\ session[s].pc = "dispatch"
  /\ \E c \in ToolCalls(cf) :
       /\ ~InputContract(c)
       /\ Settle(s, Done([session[s] EXCEPT !.call = c], RejectedResult))
  /\ UNCHANGED <<arg, ret, envToken, cf, inbound>>

\* the handler runs without props: getApi() throws before any try block
HandlerWithoutProps(s) ==
  /\ Quiet
  /\ session[s].pc = "dispatch"
  /\ ~getApi(s).ok
  /\ \E c \in ToolCalls(cf) :
       /\ InputContract(c)
       /\ Settle(s, Done([session[s] EXCEPT !.call = c],
                         ThrownResult(getApi(s).error)))
  /\ UNCHANGED <<arg, ret, envToken, cf, inbound>>

\* the handler of call c starts: getApi(), then the first request of the
\* CloudflareApi method it calls
Started(s, c, now) ==
  Issue([session[s] EXCEPT !.call = c, !.api = getApi(s).value], "await",
        FirstRequest(getApi(s).value, c, now), FirstMethod(c.tool))

\* the tool calls that reach the handler of one of tools
Accepted(tools) == {c \in ToolCalls(cf) : c.tool \in tools /\ InputContract(c)}

\* a handler may run: the agent has the request and getApi() returns
Dispatching(s) == Quiet /\ session[s].pc = "dispatch" /\ getApi(s).ok

\* list_accounts, list_zones, get_zone, get_ruleset, list_all_rulesets,
\* list_account_rulesets
ReadTool(s) ==
  /\ Dispatching(s)
  /\ \E c \in Accepted(ReadTools), now \in ClockReadings :
       \E o \in CfRest(Started(s, c, now).wire, cf) :
         /\ Settle(s, AfterRead(Started(s, c, now), request(o.resp)))
         /\ cf' = o.st
  /\ UNCHANGED <<arg, ret, envToken, inbound>>

\* list_custom_rules, list_managed_rulesets
ListEntryPointTool(s) ==
  /\ Dispatching(s)
  /\ \E c \in Accepted(EntryPointTools), now \in ClockReadings :
       \E o \in CfRest(Started(s, c, now).wire, cf) :
         /\ Settle(s, AfterListEntryPoint(Started(s, c, now), request(o.resp)))
         /\ cf' = o.st
  /\ UNCHANGED <<arg, ret, envToken, inbound>>

\* update_custom_rule, toggle_rule
UpdateTool(s) ==
  /\ Dispatching(s)
  /\ \E c \in Accepted(UpdateTools), now \in ClockReadings :
       \E o \in CfRest(Started(s, c, now).wire, cf) :
         /\ Settle(s, AfterUpdate(Started(s, c, now), request(o.resp)))
         /\ cf' = o.st
  /\ UNCHANGED <<arg, ret, envToken, inbound>>

\* delete_custom_rule
DeleteTool(s) ==
  /\ Dispatching(s)
  /\ \E c \in Accepted({"delete_custom_rule"}), now \in ClockReadings :
       \E o \in CfRest(Started(s, c, now).wire, cf) :
         /\ Settle(s, AfterDelete(Started(s, c, now), request(o.resp)))
         /\ cf' = o.st
  /\ UNCHANGED <<arg, ret, envToken, inbound>>

\* get_security_events, get_attack_summary, get_top_attacked_paths
AnalyticsTool(s) ==
  /\ Dispatching(s)
  /\ \E c \in Accepted(AnalyticsTools), now \in ClockReadings :
       \E resp \in CfGraphql(Started(s, c, now).wire) :
         Settle(s, AfterAnalytics(Started(s, c, now), graphqlRequest(resp)))
  /\ UNCHANGED <<arg, ret, envToken, cf, inbound>>

\* suggest_rule_from_events
SuggestTool(s) ==
  /\ Dispatching(s)
  /\ \E c \in Accepted({"suggest_rule_from_events"}), now \in ClockReadings :
       \E resp \in CfGraphql(Started(s, c, now).wire) :
         Settle(s, AfterSuggest(Started(s, c, now), graphqlRequest(resp)))
  /\ UNCHANGED <<arg, ret, envToken, cf, inbound>>

\* create_custom_rule: the handler starts, createCustomRule issues
\* getEntryPointRuleset and awaits it
CreateCustomRule(s) ==
  /\ Dispatching(s)
  /\ \E c \in Accepted({"create_custom_rule"}), now \in ClockReadings :
       session' = [session EXCEPT ![s] =
         [Started(s, c, now) EXCEPT !.pc = "cr_entrypoint"]]
  /\ UNCHANGED <<arg, ret, envToken, cf, inbound, response>>

\* createCustomRule resumes from getEntryPointRuleset
EntryPointResponse(s) ==
  /\ Quiet
  /\ session[s].pc = "cr_entrypoint"
  /\ \E o \in CfRest(session[s].wire, cf) :
       /\ Settle(s, AfterEntryPoint(session[s], request(o.resp)))
       /\ cf' = o.st
  /\ UNCHANGED <<arg, ret, envToken, inbound>>

\* createCustomRule resumes from the POST that creates the ruleset
CreateRulesetResponse(s) ==
  /\ Quiet
  /\ session[s].pc = "cr_create"
  /\ \E o \in CfRest(session[s].wire, cf) :
       /\ Settle(s, AfterCreateRuleset(session[s], request(o.resp)))
       /\ cf' = o.st
  /\ UNCHANGED <<arg, ret, envToken, inbound>>

\* createCustomRule resumes from the POST that appends the rule; the id the
\* provider gave the rule it appended is recorded
AppendResponse(s) ==
  /\ Quiet
  /\ session[s].pc = "cr_append"
  /\ \E o \in CfRest(session[s].wire, cf) :
       /\ Settle(s, [AfterAppend(session[s], request(o.resp)) EXCEPT
                       !.appendedId = IF o.st.nextId > cf.nextId
                                      THEN MkId(cf.nextId) ELSE NoValue])
       /\ cf' = o.st
  /\ UNCHANGED <<arg, ret, envToken, inbound>>

\* the response reaches the client
Deliver ==
  /\ ~Quiet
  /\ response' = NoResponse
  /\ UNCHANGED <<arg, ret, envToken, session, cf, inbound>>

Step(s) ==
  \/ InboundRequest(s)
  \/ RejectInput(s)
  \/ HandlerWithoutProps(s)
  \/ ReadTool(s)
  \/ ListEntryPointTool(s)
  \/ UpdateTool(s)
  \/ DeleteTool(s)
  \/ AnalyticsTool(s)
  \/ SuggestTool(s)
  \/ CreateCustomRule(s)
  \/ EntryPointResponse(s)
  \/ CreateRulesetResponse(s)
  \/ AppendResponse(s)

Next == (\E s \in Sessions : Step(s)) \/ Deliver

Spec == Init /\ [][Next]_vars

\* the Worker when its clients take turns: a request is received only after
\* the one before it was answered
Alone(s) == \A t \in Sessions \ {s} : session[t].pc = "idle"

\* an inbound request arrives while no other is being served
TurnRequest(s) == Alone(s) /\ InboundRequest(s)

StepSeq(s) ==
  \/ TurnRequest(s)
  \/ RejectInput(s)
  \/ HandlerWithoutProps(s)
  \/ ReadTool(s)
  \/ ListEntryPointTool(s)
  \/ UpdateTool(s)
  \/ DeleteTool(s)
  \/ AnalyticsTool(s)
  \/ SuggestTool(s)
  \/ CreateCustomRule(s)
  \/ EntryPointResponse(s)
  \/ CreateRulesetResponse(s)
  \/ AppendResponse(s)

NextSeq == (\E s \in Sessions : StepSeq(s)) \/ Deliver

SpecSeq == Init /\ [][NextSeq]_vars

\* the same, on a zone that at the start has no ruleset or has a custom rule
InitZones ==
  /\ envToken \in EnvTokens
  /\ session = [s \in Sessions |-> IdleSession]
  /\ cf \in {FreshZone, ZoneWithRule}
  /\ inbound = 0
  /\ response = NoResponse
  /\ arg = NoArg
  /\ ret = NoRet

SpecZones == InitZones /\ [][NextSeq]_vars

----------------------------------------------------------------------------
(* The pure functions called on their own: sanitizeErrorMessage, the        *)
(* identifier schema and fetch()'s token selection, each applied to an      *)
(* argument drawn from a set of cases                                       *)

\* a piece of a message, and what the redaction steps, applied in the order
\* of the source, leave of it
Piece(text, redacted) == [text |-> text, redacted |-> redacted]

Kept(text) == Piece(text, text)

Pad(n) == Kept(Rep("x", n))

X_failed == <<"r","e","q","u","e","s","t"," ","f","a","i","l","e","d">>

X_token == <<"a","b","c","-","1","2","3","_","X">>

X_scheme == <<"b","e","a","r","e","r"," "," ">>

X_upperHex == <<"A","B","C","D","E","F","0","1","2","3","A","B","C","D","E","F","0","1","2","3","A","B","C","D","E","F","0","1","2","3","A","B","C","D","E","F","0","1","2","3">>

X_atHost == <<"@","c","f",".","c","o","m">>

X_mail == <<"o","p","s","@","c","f",".","c","o","m">>

X_mailAtIp == <<"o","p","s","@","1","0",".","0",".","0",".","1",".","c","o","m">>

X_ip == <<"1","0",".","0",".","0",".","1">>

X_ipTwice == <<"1",".","2",".","3",".","4",".","5",".","6",".","7",".","8">>

X_twice == <<"B","e","a","r","e","r"," ","B","e","a","r","e","r"," ","t","o","k">>

X_tok == <<" ","t","o","k">>

X_dot == <<".">>

X_notIp == <<"1",".","2",".","3",".","4","5","6","7">>

\* the widths of the paddings: with a piece after them the message is longer
\* than the limit before the redaction and shorter after it, or longer after it
PadShort == 150

PadLong == 185

\* with a piece after it, what the redaction puts for the piece lies across
\* the limit
PadFull == 195

Pieces ==
  { Kept(X_failed),
    \* a Bearer token; one that is a hex run, under a lower-case scheme
    Piece(BearerPrefix \o X_token, BearerRedacted),
    Piece(X_scheme \o ZONE_A, BearerRedacted),
    \* hex runs of 32, of 64 and of 31 characters, and upper-case ones
    Piece(ZONE_A, IdRedacted),
    Piece(ZONE_A \o UNKNOWN_ID, IdRedacted),
    Kept(Rep("a", HexRunMin - 1)),
    Piece(X_upperHex, IdRedacted),
    \* an address whose local part is a hex run
    Piece(ZONE_A \o X_atHost, IdRedacted \o X_atHost),
    \* addresses, one with an IPv4 address in its domain
    Piece(X_mail, EmailRedacted),
    Piece(X_mailAtIp, EmailRedacted),
    \* an IPv4 address, and digits that are none
    Piece(X_ip, IpRedacted),
    Kept(X_notIp),
    \* two addresses that share a dot, and a token that is the scheme's name
    Piece(X_ipTwice, IpRedacted \o X_dot \o IpRedacted),
    Piece(X_twice, BearerRedacted \o X_tok),
    Pad(PadShort),
    Pad(PadLong),
    Pad(PadFull) }

Space == <<" ">>

\* messages of one piece, and of two with a space between them
Messages ==
  {<<p>> : p \in Pieces} \cup {<<p, q>> : p \in Pieces, q \in Pieces}

MessageText(m) ==
  IF Len(m) = 1 THEN m[1].text ELSE m[1].text \o Space \o m[2].text

\* strings offered as identifiers
X_upperId == Rep("A", IdLen)

IdCases ==
  { NOT_HEX, <<>>, ZONE_A, ACCOUNT_A, UNKNOWN_ID, X_upperId,
    Rep("a", IdLen - 1), Rep("a", IdLen + 1),
    Rep("a", IdLen - 1) \o <<"/">>, Rep("a", IdLen - 1) \o <<"g">>,
    Rep("a", IdLen - 1) \o <<"A">>, <<".", ".", "/">> \o Rep("a", IdLen - 3),
    Rep("a", IdLen) \o <<"\n">>, <<" ">> \o Rep("a", IdLen - 1) }

\* Authorization headers and environment tokens offered to fetch()
X_lowerScheme == <<"b","e","a","r","e","r"," ">>

X_basic == <<"B","a","s","i","c"," ">>

HeaderCases ==
  { NoValue, BearerPrefix \o TOK_A, BearerPrefix, X_lowerScheme \o TOK_A,
    X_basic \o TOK_A, TOK_A }

EnvCases ==
  { NoValue, <<>>, TOK_E, BearerPrefix \o TOK_E, X_lowerScheme \o TOK_E }

\* what the provider may answer to the query of getSecurityEventsSummary
SummaryResponses ==
  CfGraphql(getSecurityEventsSummary(CloudflareApi(TOK_A), ZONE_A, 0, 0))

\* identifiers for the path: a well-formed one, and texts with a slash, a
\* question mark, two dots and one dot
X_slash == <<"a","/","b">>

X_query == <<"a","?","b">>

X_twoDots == <<".",".">>

X_oneDot == <<".">>

PathIds == {ZONE_A, X_slash, X_query, X_twoDots, X_oneDot}

\* the business methods that put identifiers in the path, with the number of
\* identifiers each takes
PathMethods ==
  [getZone |-> 1, listRulesets |-> 1, listAccountRulesets |-> 1,
   getRuleset |-> 2, getEntryPointRuleset |-> 2, appendRule |-> 2,
   updateCustomRule |-> 3, deleteCustomRule |-> 3]

\* the request a business method issues for the identifiers given
PathRequest(method, ids) ==
  CASE method = "getZone" -> getZone(CloudflareApi(TOK_A), ids[1])
    [] method = "listRulesets" -> listRulesets(CloudflareApi(TOK_A), ids[1])
    [] method = "listAccountRulesets" ->
         listAccountRulesets(CloudflareApi(TOK_A), ids[1])
    [] method = "getRuleset" -> getRuleset(CloudflareApi(TOK_A), ids[1], ids[2])
    [] method = "getEntryPointRuleset" ->
         getEntryPointRuleset(CloudflareApi(TOK_A), ids[1], ids[2])
    [] method = "appendRule" ->
         AppendRuleCall(CloudflareApi(TOK_A), ids[1], ids[2], NoBody)
    [] method = "updateCustomRule" ->
         updateCustomRule(CloudflareApi(TOK_A), ids[1], ids[2], ids[3], NoBody)
    [] method = "deleteCustomRule" ->
         deleteCustomRule(CloudflareApi(TOK_A), ids[1], ids[2], ids[3])

\* a REST envelope { success, errors, result }
Envelope(success, errors, result) ==
  [success |-> success, errors |-> errors, result |-> result]

Payload == [id |-> MkId(1)]

\* envelopes a REST request may come back with: successes, one of them with
\* an errors entry; failures with no, one and two errors, two of them with a
\* result
RestEnvelopes ==
  {Envelope(TRUE, <<>>, Payload),
   Envelope(TRUE, <<ApiErr(M_auth)>>, Payload),
   Envelope(FALSE, <<>>, NullData),
   Envelope(FALSE, <<ApiErr(M_auth)>>, NullData),
   Envelope(FALSE, <<ApiErr(M_auth)>>, Payload),
   Envelope(FALSE, <<ApiErr(M_denied), ApiErr(M_contact)>>, NullData),
   Envelope(FALSE, <<ApiErr(M_contact), ApiErr(M_denied)>>, Payload)}

\* a GraphQL response body { data, errors? }
GraphqlBody(data, errorsPresent, errors) ==
  [data |-> data, errorsPresent |-> errorsPresent, errors |-> errors]

ViewerData == [viewer |-> [zones |-> <<>>]]

\* bodies a GraphQL request may come back with: errors absent, present and
\* empty, present next to data, present with data null
GraphqlBodies ==
  {GraphqlBody(ViewerData, FALSE, <<>>),
   GraphqlBody(NullData, FALSE, <<>>),
   GraphqlBody(ViewerData, TRUE, <<>>),
   GraphqlBody(ViewerData, TRUE, <<[message |-> M_gql]>>),
   GraphqlBody(ViewerData, TRUE, <<[message |-> M_contact], [message |-> M_gql]>>),
   GraphqlBody(NullData, TRUE, <<[message |-> M_gql]>>)}

\* minutes arguments as fractions: none, half a minute, whole numbers of
\* minutes at and beyond the ends of the range, a minute and a half, and ten
\* sevenths of a minute, which is no whole number of milliseconds
MinutesCases ==
  {<<0, 1>>, <<1, 2>>, <<1, 1>>, <<3, 2>>, <<10, 7>>, <<60, 1>>, <<1440, 1>>,
   <<1441, 1>>}

\* clock readings: midnight of the second day, and 01:01:01.001 after it
NowCases == {86400000, 90061001}

Args ==
  {[fn |-> "sanitizeErrorMessage", message |-> m] : m \in Messages}
    \cup {[fn |-> "cloudflareIdSchema", id |-> i] : i \in IdCases}
    \cup {[fn |-> "SelectToken", authHeader |-> h, env |-> e] :
            h \in HeaderCases, e \in EnvCases}
    \cup {[fn |-> "getSecurityEventsSummary", resp |-> r] : r \in SummaryResponses}
    \cup {[fn |-> "request", resp |-> [t |-> "json", data |-> e]] :
            e \in RestEnvelopes}
    \cup {[fn |-> "graphqlRequest", resp |-> [t |-> "json", data |-> b]] :
            b \in GraphqlBodies}
    \cup UNION {{[fn |-> "fetch", method |-> m, ids |-> i] :
                   i \in [1..PathMethods[m] -> PathIds]} : m \in DOMAIN PathMethods}
    \cup {[fn |-> "getTimeRange", num |-> m[1], den |-> m[2], now |-> t] :
            m \in MinutesCases, t \in NowCases}

InitFn ==
  /\ envToken = NoValue
  /\ session = [s \in Sessions |-> IdleSession]
  /\ cf = FreshZone
  /\ inbound = 0
  /\ response = NoResponse
  /\ arg \in Args
  /\ ret = NoRet

Pending(fn) == arg.fn = fn /\ ret = NoRet

\* sanitizeErrorMessage(message)
CallSanitize ==
  /\ Pending("sanitizeErrorMessage")
  /\ ret' = [fn |-> arg.fn, passes |-> 1,
             first |-> sanitizeErrorMessage(MessageText(arg.message)),
             value |-> sanitizeErrorMessage(MessageText(arg.message))]
  /\ UNCHANGED <<arg, envToken, session, cf, inbound, response>>

\* sanitizeErrorMessage applied to what it returned
CallSanitizeAgain ==
  /\ arg.fn = "sanitizeErrorMessage"
  /\ ret.fn = arg.fn
  /\ ret.passes = 1
  /\ ret' = [ret EXCEPT !.passes = 2, !.value = sanitizeErrorMessage(ret.value)]
  /\ UNCHANGED <<arg, envToken, session, cf, inbound, response>>

\* cloudflareIdSchema.safeParse(id).success
CallSchema ==
  /\ Pending("cloudflareIdSchema")
  /\ ret' = [fn |-> arg.fn, success |-> cloudflareIdSchema(arg.id)]
  /\ UNCHANGED <<arg, envToken, session, cf, inbound, response>>

\* fetch(): the token it extracts from the header and the environment
CallSelectToken ==
  /\ Pending("SelectToken")
  /\ ret' = [fn |-> arg.fn, token |-> SelectToken(arg.authHeader, arg.env)]
  /\ UNCHANGED <<arg, envToken, session, cf, inbound, response>>

\* getSecurityEventsSummary, given the response to its query
CallSummary ==
  /\ Pending("getSecurityEventsSummary")
  /\ ret' = [fn |-> arg.fn,
             result |-> SecurityEventsSummaryReturn(graphqlRequest(arg.resp))]
  /\ UNCHANGED <<arg, envToken, session, cf, inbound, response>>

\* getTimeRange(minutes)
CallTimeRange ==
  /\ Pending("getTimeRange")
  /\ ret' = [fn |-> arg.fn, window |-> TimeRange(arg.num, arg.den, arg.now)]
  /\ UNCHANGED <<arg, envToken, session, cf, inbound, response>>

\* request(), given the response to its fetch
CallRequest ==
  /\ Pending("request")
  /\ ret' = [fn |-> arg.fn, out |-> request(arg.resp)]
  /\ UNCHANGED <<arg, envToken, session, cf, inbound, response>>

\* graphqlRequest(), given the response to its fetch
CallGraphqlRequest ==
  /\ Pending("graphqlRequest")
  /\ ret' = [fn |-> arg.fn, out |-> graphqlRequest(arg.resp)]
  /\ UNCHANGED <<arg, envToken, session, cf, inbound, response>>

\* a business method with identifiers in the path: the URL that fetch()
\* requests, as parsed
CallFetch ==
  /\ Pending("fetch")
  /\ ret' = [fn |-> arg.fn,
             segments |-> Segments(PathOf(PathRequest(arg.method, arg.ids).url))]
  /\ UNCHANGED <<arg, envToken, session, cf, inbound, response>>

NextFn ==
  \/ CallSanitize
  \/ CallSanitizeAgain
  \/ CallSchema
  \/ CallSelectToken
  \/ CallSummary
  \/ CallTimeRange
  \/ CallRequest
  \/ CallGraphqlRequest
  \/ CallFetch

SpecFn == InitFn /\ [][NextFn]_vars

----------------------------------------------------------------------------
(* Properties *)

\* a response is being sent, and the request it answers
Sent == response.session # "none"

Served == response.served

\* the CloudflareApi methods whose requests were issued, in order
Names(l) == [k \in 1..Len(l.issued) |-> l.issued[k].name]

NotValidation(n) == n # "getUserInfo"

\* those issued by the tool's handler, after fetch() validated the token
OperationNames(l) == SelectSeq(Names(l), NotValidation)

\* the entry-point rulesets of the zone for the custom-rule phase
CustomRulesets(st) == RulesetIndexes(st, ZONE_A, PHASE_CUSTOM)

\* the number of rules of the first of them
RuleCount(st) ==
  IF CustomRulesets(st) = {} THEN 0
  ELSE Len(st.rulesets[MinOf(CustomRulesets(st))].rules)

CreateSucceeded(l) ==
  /\ l.call.tool = "create_custom_rule"
  /\ l.outcome.kind = "returned"
  /\ l.outcome.text = T_createOk

FetchThenAppend == <<"getEntryPointRuleset", "appendRule">>

FetchCreateAppend == <<"getEntryPointRuleset", "createRuleset", "appendRule">>

\* the provider's answer to getEntryPointRuleset said that the zone has no
\* entry-point ruleset for the phase: request() threw one of its wordings
AbsenceReported(e) ==
  \E f \in NotFoundFailures : e = request([t |-> "json", data |-> Fail(f)]).error

\* what became of session s's call in the step: still running, or served
Continued(s) == IF response'.session = s THEN response'.served ELSE session'[s]

\* on a zone without an entry-point ruleset of the custom-rule phase,
\* createCustomRule goes on from the provider's not-found answer to the
\* ruleset-creation request
FreshZoneLeadsToCreation ==
  [][\A s \in Sessions :
       (/\ session[s].pc = "cr_entrypoint"
        /\ session[s].call.zoneId = ZONE_A
        /\ CustomRulesets(cf) = {}
        /\ session'[s] # session[s]
        /\ AbsenceReported(Continued(s).apiThrown))
         => /\ session'[s].pc = "cr_create"
            /\ OperationNames(session'[s])
                 = <<"getEntryPointRuleset", "createRuleset">>
    ]_vars

\* with clients that take turns, createCustomRule issues the
\* ruleset-creation request only for a zone that has no entry-point ruleset of
\* the custom-rule phase, issues it once, after the fetch and before the one
\* append, and appends directly only to a ruleset that exists; a call that
\* succeeds leaves exactly one ruleset, with one rule more than before. So two
\* calls in a row that succeed on a fresh zone leave one ruleset with two rules.
CreateOnceThenAppendOnce ==
  [][\A s \in Sessions :
       /\ (session[s].pc = "cr_entrypoint" /\ session'[s].pc = "cr_create")
            => /\ CustomRulesets(cf) = {}
               /\ OperationNames(session'[s])
                    = <<"getEntryPointRuleset", "createRuleset">>
       /\ (session[s].pc = "cr_entrypoint" /\ session'[s].pc = "cr_append")
            => /\ CustomRulesets(cf) # {}
               /\ OperationNames(session'[s]) = FetchThenAppend
       /\ (session[s].pc = "cr_create" /\ session'[s].pc = "cr_append")
            => /\ OperationNames(session'[s]) = FetchCreateAppend
               /\ Cardinality(CustomRulesets(cf')) = 1
               /\ RuleCount(cf') = 0
       /\ (session[s].pc = "cr_append" /\ response'.session = s
             /\ CreateSucceeded(response'.served))
            => /\ OperationNames(response'.served)
                    \in {FetchThenAppend, FetchCreateAppend}
               /\ Cardinality(CustomRulesets(cf')) = 1
               /\ RuleCount(cf') = RuleCount(cf) + 1
    ]_vars

\* C1: with clients that take turns, a createCustomRule call on a zone that
\* has no entry-point ruleset of the custom-rule phase issues one
\* ruleset-creation request and then one append request, and two calls in a
\* row on such a zone leave one ruleset with two rules
C1_FreshZoneCreatesOnceAppendsOnce ==
  FreshZoneLeadsToCreation /\ CreateOnceThenAppendOnce

\* the second of two calls in a row succeeded: it found the ruleset the first
\* created, and the zone has one ruleset with two rules
TwoCallsOneRuleset ==
  /\ Sent
  /\ CreateSucceeded(Served)
  /\ OperationNames(Served) = FetchThenAppend
  /\ Cardinality(CustomRulesets(cf)) = 1
  /\ RuleCount(cf) = 2

\* C2: in every reachable state the zone has at most one entry-point ruleset
\* of the custom-rule phase, and no ruleset-creation request is outstanding
\* for a zone and phase that has one
C2_NoSecondCreation ==
  /\ Cardinality(CustomRulesets(cf)) <= 1
  /\ \A s \in Sessions : session[s].pc = "cr_create" => CustomRulesets(cf) = {}

\* C3: when createCustomRule succeeds, the rule it returns is the rule the
\* provider appended for this call: it has the id the provider assigned on
\* this append and the fields this call sent
C3_ReturnsAppendedRule ==
  (Sent /\ CreateSucceeded(Served))
    => /\ Served.outcome.json.id = Served.appendedId
       /\ Served.outcome.json.description = Served.call.body.description
       /\ Served.outcome.json.expression = Served.call.body.expression
       /\ Served.outcome.json.action = Served.call.body.action
       /\ Served.outcome.json.enabled = Served.call.body.enabled

\* a call that created the ruleset succeeded, and its rule is not the only
\* one of that ruleset: another session appended to it during the call
C3_AppendsInterleaved ==
  /\ Sent
  /\ CreateSucceeded(Served)
  /\ OperationNames(Served) = FetchCreateAppend
  /\ \E k \in CustomRulesets(cf) :
       /\ cf.rulesets[k].id = Served.rulesetId
       /\ Len(cf.rulesets[k].rules) >= 2

\* C4: when createCustomRule has created the ruleset and its append does not
\* succeed, the call is over with that step: it fails with the failure of the
\* append, the append was issued once, and no request was issued after it
C4_AppendFailureSurfaced ==
  [][\A s \in Sessions :
       (/\ session[s].pc = "cr_append"
        /\ OperationNames(session[s]) = FetchCreateAppend
        /\ session'[s] # session[s]
        /\ ~(response'.session = s /\ CreateSucceeded(response'.served)))
         => /\ session'[s].pc = "idle"
            /\ response'.session = s
            /\ response'.served.issued = session[s].issued
            /\ response'.served.outcome.kind = "returned"
            /\ \E o \in CfRest(session[s].wire, cf) :
                 /\ ~request(o.resp).ok
                 /\ response'.served.apiThrown = request(o.resp).error
                 /\ response'.served.outcome.text =
                      T_createFailed
                        \o sanitizeErrorMessage(request(o.resp).error.message)
    ]_vars

\* a call created the ruleset, its append failed, and the call failed
C4_AppendFailed ==
  /\ Sent
  /\ Served.call.tool = "create_custom_rule"
  /\ OperationNames(Served) = FetchCreateAppend
  /\ ~CreateSucceeded(Served)
  /\ CustomRulesets(cf) # {}

\* the credential fetch() extracted for the request being served
Credential(l) == SelectToken(l.authHeader, envToken)

\* every request of l carries that credential, and none the token of the
\* other session's Authorization header
CarriesOwn(s, l) ==
  /\ \A k \in 1..Len(l.issued) :
       /\ l.issued[k].request.authorization = BearerPrefix \o Credential(l)
       /\ \A t \in Sessions \ {s} :
            l.issued[k].request.authorization # BearerPrefix \o HeaderToken(t)
  /\ l.wire.kind # "none" => l.wire.authorization = BearerPrefix \o Credential(l)
  /\ l.props.defined => l.props.accessToken = Credential(l)
  /\ l.api.accessToken \in {NoValue, Credential(l)}

\* C5: every request issued for a session carries the credential of that
\* session's own inbound request, never the other session's, and the client
\* holds that credential for as long as the request is served
C5_OwnCredential ==
  /\ \A s \in Sessions : CarriesOwn(s, session[s])
  /\ Sent => CarriesOwn(response.session, Served)

\* both sessions have a request outstanding, with different credentials
C5_TwoSessionsInFlight ==
  /\ session["s1"].wire.kind = "rest"
  /\ session["s2"].wire.kind = "rest"
  /\ session["s1"].wire.authorization # session["s2"].wire.authorization

\* C6: within one session the /user validation request is issued at most once
C6_ValidatedOnce == \A s \in Sessions : session[s].userInfoCalls <= 1

LowerText(text) == [k \in 1..Len(text) |-> ToLower(text[k])]

S_authenticat == <<"a","u","t","h","e","n","t","i","c","a","t">>

S_unauthorized == <<"u","n","a","u","t","h","o","r","i","z","e","d">>

\* the text of a failure says it is one of authentication
AuthenticationSpecific(text) ==
  \/ Includes(LowerText(text), S_authenticat)
  \/ Includes(LowerText(text), S_unauthorized)

OutcomeText(o) ==
  CASE o.kind = "thrown" -> o.error.message
    [] o.kind = "returned" -> o.text
    [] OTHER -> <<>>

\* C7: when the validation of the credential failed, a tool call that reaches
\* its handler ends with a failure that names authentication
C7_AuthenticationFailure ==
  (Sent /\ Served.logged.name # "none" /\ Served.outcome.kind # "rejected")
    => AuthenticationSpecific(OutcomeText(Served.outcome))

\* C8: a tool call whose handler met a failure of a CloudflareApi method ends
\* with a text result, not with a thrown error
C8_FailuresAsText ==
  (Sent /\ Served.props.defined /\ Served.apiThrown.name # "none")
    => Served.outcome.kind = "returned"

\* no failure text of l is provider or transport text that the sanitizer has
\* not processed
Sanitized(l) ==
  /\ ~l.logged.raw
  /\ ~l.apiThrown.raw
  /\ l.outcome.kind = "thrown" => ~l.outcome.error.raw
  /\ l.outcome.kind = "returned" => ~l.outcome.raw

\* C9: every failure message that is thrown by a CloudflareApi method,
\* returned as tool text or logged by fetch() has been through the sanitizer
C9_AlwaysSanitized ==
  /\ \A s \in Sessions : Sanitized(session[s])
  /\ Sent => Sanitized(Served)

\* 32 characters, each a digit or one of a..f
LowerHex32(id) ==
  /\ Len(id) = 32
  /\ \A k \in 1..Len(id) : id[k] \in Digit \cup {"a", "b", "c", "d", "e", "f"}

\* the identifiers a call supplies
SuppliedIds(c) == {c.zoneId, c.accountId, c.rulesetId, c.ruleId} \ {NoValue}

MalformedId(c) == \E id \in SuppliedIds(c) : ~LowerHex32(id)

\* a tool call with an identifier that is not 32 lowercase hex characters is
\* rejected; its handler does not run: it builds no client and issues no
\* request
MalformedIdNeverReachesHandler ==
  (Sent /\ MalformedId(Served.call))
    => /\ Served.outcome.kind = "rejected"
       /\ OperationNames(Served) = <<>>
       /\ Served.api = NoApi

\* C10: a tool call with an identifier that is not 32 lowercase hex
\* characters is rejected, and no request at all was issued for it: no
\* CloudflareApi method was reached
C10_NoRequestAtAll ==
  (Sent /\ MalformedId(Served.call))
    => /\ Served.outcome.kind = "rejected"
       /\ Names(Served) = <<>>

\* a call of an authenticated session was rejected for a malformed identifier
MalformedIdRejected ==
  /\ Sent
  /\ Served.props.defined
  /\ MalformedId(Served.call)
  /\ Served.outcome.kind = "rejected"

\* C11: the identifier schema accepts a string exactly when it is 32
\* characters, each a digit or one of a..f; it rejects "not-hex", 31 and 33
\* characters, upper-case hex, and strings with a path separator, a newline,
\* a space or a letter after f
C11_AcceptsExactly32LowerHex ==
  ret.fn = "cloudflareIdSchema"
    => /\ ret.success <=> LowerHex32(arg.id)
       /\ arg.id \in {ZONE_A, ACCOUNT_A, UNKNOWN_ID} => ret.success
       /\ arg.id \in {NOT_HEX, Rep("a", 31), Rep("a", 33), X_upperId,
                       Rep("a", 31) \o <<"/">>, Rep("a", 32) \o <<"\n">>}
            => ~ret.success

\* the schema refused 33 hex characters
C11_RejectedTooLong ==
  /\ ret.fn = "cloudflareIdSchema"
  /\ arg.id = Rep("a", 33)
  /\ ~ret.success

\* the Authorization header carries a Bearer token
HeaderCarriesToken(h) == h = BearerPrefix \o TOK_A

\* the Authorization header is absent or is not of the Bearer scheme
NoBearerHeader(h) ==
  h \in {NoValue, X_lowerScheme \o TOK_A, X_basic \o TOK_A, TOK_A}

\* C17: the token of a Bearer Authorization header is the credential,
\* whatever the environment token is; the environment token is the credential
\* only without such a header, without its "Bearer " prefix if it has one and
\* as it is otherwise
C17_HeaderTokenFirst ==
  ret.fn = "SelectToken"
    => /\ HeaderCarriesToken(arg.authHeader) => ret.token = TOK_A
       /\ ret.token \in {TOK_E, X_lowerScheme \o TOK_E}
            => ~HeaderCarriesToken(arg.authHeader)
       /\ NoBearerHeader(arg.authHeader)
            => ret.token =
                 CASE arg.env = BearerPrefix \o TOK_E -> TOK_E
                   [] arg.env = TOK_E -> TOK_E
                   [] arg.env = X_lowerScheme \o TOK_E -> X_lowerScheme \o TOK_E
                   [] OTHER -> NoValue

\* the header's token was chosen although the environment has one
C17_HeaderOverEnvironment ==
  /\ ret.fn = "SelectToken"
  /\ arg.authHeader = BearerPrefix \o TOK_A
  /\ arg.env = BearerPrefix \o TOK_E
  /\ ret.token = TOK_A

\* what the message's pieces are after the redactions, put together
RedactedText(m) ==
  IF Len(m) = 1 THEN m[1].redacted ELSE m[1].redacted \o Space \o m[2].redacted

\* the first 200 characters and the marker, for a text longer than that
Cut(text) ==
  IF Len(text) > MaxMessageLen
  THEN [k \in 1..(MaxMessageLen + 3) |-> IF k <= MaxMessageLen THEN text[k] ELSE "."]
  ELSE text

\* C18: the sanitizer redacts Bearer tokens, then hex runs of 32 and more,
\* then addresses, then IPv4 addresses, and cuts what is left after the
\* redactions, with the marker, when that is longer than 200 characters; it
\* returns a text for every message
C18_RedactionsInOrderThenCut ==
  ret.fn = "sanitizeErrorMessage"
    => ret.first = Cut(RedactedText(arg.message))

\* a message longer than the limit whose redacted text is shorter was not cut:
\* the 64 character hex run after the padding is redacted whole
C18_RedactedBeforeCut ==
  /\ ret.fn = "sanitizeErrorMessage"
  /\ arg.message = <<Pad(PadShort), Piece(ZONE_A \o UNKNOWN_ID, IdRedacted)>>
  /\ Len(MessageText(arg.message)) > MaxMessageLen
  /\ ret.first = Rep("x", PadShort) \o Space \o IdRedacted

MarkerLen == Len(Ellipsis)

C20_Idempotent ==
  (ret.fn = "sanitizeErrorMessage" /\ ret.passes = 2 /\ Len(ret.first) < MaxMessageLen)
    => ret.value = ret.first

\* a text with all four markers went through the sanitizer again
C20_MarkersSanitizedAgain ==
  /\ ret.fn = "sanitizeErrorMessage"
  /\ ret.passes = 2
  /\ arg.message = <<Piece(X_scheme \o ZONE_A, BearerRedacted),
                     Piece(ZONE_A \o X_atHost, IdRedacted \o X_atHost)>>
  /\ ret.first = BearerRedacted \o Space \o IdRedacted \o X_atHost

\* the requests of l are pairwise different: none was issued twice
NoRepeat(l) ==
  \A i, j \in 1..Len(l.issued) :
    i # j => l.issued[i].request # l.issued[j].request

FailurePrefixes ==
  {T_createFailed, T_updateFailed, T_deleteFailed, T_toggleFailed, T_analyzeFailed}

\* a request of the handler of l failed; apiThrown is the last such failure
HandlerCallFailed(l) == OperationNames(l) # <<>> /\ l.apiThrown.name # "none"

\* the call ended with that failure: thrown as it is, or as a failure text
FailureReported(l) ==
  \/ l.outcome.kind = "thrown" /\ l.outcome.error = l.apiThrown
  \/ /\ l.outcome.kind = "returned"
     /\ \E prefix \in FailurePrefixes :
          l.outcome.text = prefix \o sanitizeErrorMessage(l.apiThrown.message)

\* the failure was the not-found answer to the fetch of an entry-point
\* ruleset, and the call went on from it: createCustomRule created the
\* ruleset and appended, list_custom_rules and list_managed_rulesets
\* returned an empty list
AbsenceAbsorbed(l) ==
  /\ IsNotFoundError(l.apiThrown)
  /\ l.outcome.kind = "returned"
  /\ \/ CreateSucceeded(l) /\ OperationNames(l) = FetchCreateAppend
     \/ /\ l.call.tool \in EntryPointTools
        /\ OperationNames(l) = <<"getEntryPointRuleset">>
        /\ l.outcome.json = [rules |-> <<>>, message |-> "none configured"]

\* the call that is answered is over: its session awaits nothing
AnsweredOnce == Sent => session[response.session].pc = "idle"

\* C12 as stated: no call issues the same request twice, and every failure of
\* a request of a handler is reported to the caller, once
C12_NoRepeatEveryFailureReported ==
  /\ \A s \in Sessions : NoRepeat(session[s])
  /\ Sent => NoRepeat(Served)
  /\ AnsweredOnce
  /\ (Sent /\ HandlerCallFailed(Served)) => FailureReported(Served)

\* C12: no call issues the same request twice, and the failure of a request
\* of a handler is reported to the caller, once, unless it is the not-found
\* answer to the fetch of an entry-point ruleset, from which createCustomRule
\* and the two entry-point listings go on
C12_NoRepeatFailureReportedUnlessAbsent ==
  /\ \A s \in Sessions : NoRepeat(session[s])
  /\ Sent => NoRepeat(Served)
  /\ AnsweredOnce
  /\ (Sent /\ HandlerCallFailed(Served) /\ ~AbsenceAbsorbed(Served))
       => FailureReported(Served)

\* createCustomRule went on from the not-found answer, its ruleset creation
\* failed, and the call ended with that failure after two requests
C12_CreationFailedOnce ==
  /\ Sent
  /\ Served.call.tool = "create_custom_rule"
  /\ OperationNames(Served) = <<"getEntryPointRuleset", "createRuleset">>
  /\ HandlerCallFailed(Served)
  /\ FailureReported(Served)

\* the fields of a rule that a PATCH body may carry
PatchFields == {"description", "expression", "action", "enabled"}

\* the rules that have the id ruleId in the ruleset rulesetId of the zone
RulesOf(st, zoneId, rulesetId, ruleId) ==
  UNION {{st.rulesets[k].rules[j] :
            j \in {i \in 1..Len(st.rulesets[k].rules) :
                     st.rulesets[k].rules[i].id = ruleId}} :
           k \in {i \in 1..Len(st.rulesets) :
                    st.rulesets[i].zone = zoneId /\ st.rulesets[i].id = rulesetId}}

RuleBefore(l) == RulesOf(cf, l.call.zoneId, l.call.rulesetId, l.call.ruleId)

RuleAfter(l) == RulesOf(cf', l.call.zoneId, l.call.rulesetId, l.call.ruleId)

\* in this step the handler of tool ran for session s, issued its one
\* request and was answered
HandlerAnswered(s, tool) ==
  /\ session[s].pc = "dispatch"
  /\ response'.session = s
  /\ response'.served.call.tool = tool
  /\ Len(OperationNames(response'.served)) = 1

\* the one request the handler of l issued
Issued(l) == l.issued[Len(l.issued)].request

UpdateSucceeded(l) == l.outcome.kind = "returned" /\ l.outcome.text = T_updateOk

\* C13: update_custom_rule sends a PATCH whose body holds exactly the fields
\* among description, expression, action, enabled that the caller supplied,
\* with the values supplied; when the update succeeds, the rule returned has
\* those values, and every field that was not supplied has the value the
\* rule had before
C13_OnlySuppliedFieldsSent ==
  [][\A s \in Sessions :
       HandlerAnswered(s, "update_custom_rule")
         => LET l == response'.served
                b == l.call.body
            IN /\ Issued(l).method = "PATCH"
               /\ DOMAIN Issued(l).body = {f \in PatchFields : b[f] # Omitted}
               /\ \A f \in DOMAIN Issued(l).body : Issued(l).body[f] = b[f][1]
               /\ UpdateSucceeded(l)
                    => /\ RuleBefore(l) # {}
                       /\ \A before \in RuleBefore(l), f \in PatchFields :
                            l.outcome.json[f] =
                              IF b[f] = Omitted THEN before[f] ELSE b[f][1]
    ]_vars

\* an update that supplied only enabled = false succeeded on a rule whose
\* description an earlier update had changed: the rule returned has that
\* description
C13_DisabledOnly ==
  /\ Sent
  /\ Served.call.tool = "update_custom_rule"
  /\ Served.call.body.enabled = Supplied(FALSE)
  /\ Served.call.body.description = Omitted
  /\ UpdateSucceeded(Served)
  /\ Served.outcome.json.description = D_2
  /\ Served.outcome.json.expression = E_1
  /\ Served.outcome.json.enabled = FALSE

\* the answers to the PATCH of l that leave the provider as it is after the step
PatchAnswers(l) == {o \in CfRest(Issued(l), cf) : o.st = cf'}

\* the rules of a ruleset the provider returned that have the id ruleId
Located(result, ruleId) ==
  {result.rules[j] : j \in {i \in 1..Len(result.rules) : result.rules[i].id = ruleId}}

\* the failure text of the tool of l for message
UpdateFailedWith(l, message) ==
  /\ l.outcome.kind = "returned"
  /\ l.outcome.json = NoJson
  /\ l.outcome.text =
       (IF l.call.tool = "toggle_rule" THEN T_toggleFailed ELSE T_updateFailed)
         \o message

\* the call of l ended as answer o of the provider requires: a failed request
\* as that failure; an accepted update whose ruleset has no rule with the
\* requested id as the failure "Updated rule not found in response"; an
\* accepted update whose ruleset has such a rule as a success with that rule
EndsAsAnswered(l, o) ==
  IF ~request(o.resp).ok
  THEN /\ l.apiThrown = request(o.resp).error
       /\ UpdateFailedWith(l, sanitizeErrorMessage(request(o.resp).error.message))
  ELSE IF Located(request(o.resp).value.result, l.call.ruleId) = {}
  THEN /\ l.apiThrown = JsError("Error", M_updatedNotFound, FALSE)
       /\ UpdateFailedWith(l, M_updatedNotFound)
  ELSE /\ l.apiThrown = NoError
       /\ l.outcome.kind = "returned"
       /\ l.call.tool = "update_custom_rule"
            => /\ l.outcome.text = T_updateOk
               /\ l.outcome.json \in Located(request(o.resp).value.result,
                                             l.call.ruleId)
       /\ l.call.tool = "toggle_rule"
            => l.outcome.text \in {T_enabledOk \o l.call.ruleId,
                                   T_disabledOk \o l.call.ruleId}

\* C14: when the provider accepts an update and the ruleset it returns has no
\* rule with the requested id, updateCustomRule fails with "Updated rule not
\* found in response", and its tool with that failure text; when the ruleset
\* has a rule with that id, that rule is what is returned; a rule returned
\* always has the requested id
C14_UpdatedRuleLocatedById ==
  [][\A s \in Sessions :
       (HandlerAnswered(s, "update_custom_rule") \/ HandlerAnswered(s, "toggle_rule"))
         => LET l == response'.served
            IN /\ \E o \in PatchAnswers(l) : EndsAsAnswered(l, o)
               /\ UpdateSucceeded(l) => l.outcome.json.id = l.call.ruleId
               /\ l.apiThrown.message = M_updatedNotFound
                    => UpdateFailedWith(l, M_updatedNotFound)
    ]_vars

\* the provider applied an update to the rule and the call failed with
\* "Updated rule not found in response"
C14_AcceptedButNotLocated ==
  /\ Sent
  /\ Served.call.tool = "update_custom_rule"
  /\ Served.call.body.description = Supplied(D_2)
  /\ Served.apiThrown.message = M_updatedNotFound
  /\ UpdateFailedWith(Served, M_updatedNotFound)
  /\ \E r \in RulesOf(cf, Served.call.zoneId, Served.call.rulesetId,
                       Served.call.ruleId) : r.description = D_2

DeleteSucceeded(l) ==
  /\ l.outcome.kind = "returned"
  /\ l.outcome.text = T_deleteOk \o l.call.ruleId

\* the failure texts of delete_custom_rule for the provider's not-found answers
NotFoundTexts ==
  {T_deleteFailed
     \o sanitizeErrorMessage(request([t |-> "json", data |-> Fail(e)]).error.message) :
       e \in NotFoundFailures}

\* the failure texts of delete_custom_rule for a request that did not reach
\* the rule: transport failures and the provider's refusals of the request
UnansweredTexts ==
  {T_deleteFailed \o sanitizeErrorMessage(request(resp).error.message) :
     resp \in {[t |-> "network", message |-> M_network],
                [t |-> "notjson", message |-> M_notJson]}
               \cup {[t |-> "json", data |-> Fail(e)] : e \in GenericFailures}}

\* C15: delete_custom_rule reports success exactly when its request removed
\* the rule; called for a rule that the ruleset does not hold, as the second
\* of two calls with the same identifiers is, it never reports success: it
\* returns the failure text of the provider's not-found answer, or that of a
\* request that failed before the provider looked for the rule
C15_SecondDeleteFails ==
  [][\A s \in Sessions :
       HandlerAnswered(s, "delete_custom_rule")
         => LET l == response'.served
            IN /\ Issued(l).method = "DELETE"
               /\ DeleteSucceeded(l) <=> (RuleBefore(l) # {} /\ RuleAfter(l) = {})
               /\ RuleBefore(l) = {}
                    => /\ ~DeleteSucceeded(l)
                       /\ l.outcome.kind = "returned"
                       /\ l.outcome.text \in NotFoundTexts \cup UnansweredTexts
                       /\ cf' = cf
               /\ (RuleBefore(l) # {} /\ ~DeleteSucceeded(l))
                    => /\ l.outcome.kind = "returned"
                       /\ l.outcome.text \in UnansweredTexts
                       /\ cf' = cf
    ]_vars

\* the rule the zone had at the start was deleted by the first call, and the
\* second call with the same identifiers returned the provider's not-found
\* failure
C15_DeletedTwice ==
  /\ Sent
  /\ inbound = 2
  /\ Served.call.tool = "delete_custom_rule"
  /\ Served.call.rulesetId = MkId(1)
  /\ Served.call.ruleId = MkId(2)
  /\ RulesOf(cf, ZONE_A, MkId(1), MkId(2)) = {}
  /\ Served.outcome.kind = "returned"
  /\ Served.outcome.text \in NotFoundTexts

ToggleSucceeded(l) ==
  /\ l.outcome.kind = "returned"
  /\ l.outcome.text \in {T_enabledOk \o l.call.ruleId, T_disabledOk \o l.call.ruleId}

\* C16: toggle_rule sends a PATCH whose body holds the enabled field and no
\* other; when it succeeds, its text is "Successfully enabled rule " or
\* "Successfully disabled rule ", as enabled says, followed by the rule id,
\* and the rule has the enabled value sent and the description, expression
\* and action it had before
C16_ToggleSendsOnlyEnabled ==
  [][\A s \in Sessions :
       HandlerAnswered(s, "toggle_rule")
         => LET l == response'.served
            IN /\ Issued(l).method = "PATCH"
               /\ Issued(l).body = [enabled |-> l.call.body.enabled]
               /\ ToggleSucceeded(l)
                    => /\ l.outcome.text =
                            (IF l.call.body.enabled THEN T_enabledOk ELSE T_disabledOk)
                              \o l.call.ruleId
                       /\ Cardinality(RuleBefore(l)) = 1
                       /\ Cardinality(RuleAfter(l)) = 1
                       /\ \A before \in RuleBefore(l), after \in RuleAfter(l) :
                            /\ after.enabled = l.call.body.enabled
                            /\ after.expression = before.expression
                            /\ after.description = before.description
                            /\ after.action = before.action
    ]_vars

\* toggle_rule with enabled = true succeeded on the rule the zone holds
\* disabled at the start: the text names the rule, the rule is enabled and
\* has its expression
C16_DisabledRuleEnabled ==
  /\ Sent
  /\ inbound = 1
  /\ Served.call.tool = "toggle_rule"
  /\ Served.call.body.enabled
  /\ Served.outcome.kind = "returned"
  /\ Served.outcome.text = T_enabledOk \o MkId(2)
  /\ \E r \in RulesOf(cf, ZONE_A, MkId(1), MkId(2)) :
       r.enabled /\ r.expression = E_1 /\ r.description = D_1 /\ r.action = "block"

\* the positions where a run of 32 or more hex digits of s starts
HexRuns(s) ==
  {i \in 1..Len(s) :
     (i = 1 \/ s[i - 1] \notin HexChar) /\ RunLen(s, i, HexChar) >= HexRunMin}

\* the run that starts at i
HexRunAt(s, i) == SubSeq(s, i, i + RunLen(s, i, HexChar) - 1)

\* the sanitizer was applied to a message with a run of 32 or more hex digits
SanitizedHexRun ==
  /\ ret.fn = "sanitizeErrorMessage"
  /\ HexRuns(MessageText(arg.message)) # {}

\* what the sanitizer returned holds none of the hex runs of the message
NoHexRunLeft ==
  \A i \in HexRuns(MessageText(arg.message)) :
    ~Includes(ret.first, HexRunAt(MessageText(arg.message), i))

BearerCredentials(s) ==
  {i \in 1..Len(s) :
     MatchAt(s, i, BearerPrefix)
       /\ RunLen(s, i + Len(BearerPrefix), BearerTokenChar) >= 1}

\* the token of the one that starts at i
TokenAt(s, i) ==
  SubSeq(s, i + Len(BearerPrefix),
         i + Len(BearerPrefix) + RunLen(s, i + Len(BearerPrefix), BearerTokenChar) - 1)

\* C22: for a message that holds "Bearer " followed by a token, what the
\* sanitizer returns holds "Bearer [REDACTED]" and does not hold the token
C22_BearerMarkerAndNoToken ==
  (/\ ret.fn = "sanitizeErrorMessage"
   /\ BearerCredentials(MessageText(arg.message)) # {})
    => /\ Includes(ret.first, BearerRedacted)
       /\ \A i \in BearerCredentials(MessageText(arg.message)) :
            ~Includes(ret.first, TokenAt(MessageText(arg.message), i))

\* the token of a credential that follows the word Bearer as the token of
\* another came back as it was
TokenAfterTokenLeft ==
  /\ ret.fn = "sanitizeErrorMessage"
  /\ arg.message = <<Piece(X_twice, BearerRedacted \o X_tok)>>
  /\ TokenAt(X_twice, 8) = <<"t", "o", "k">>
  /\ ret.first = BearerRedacted \o <<" ", "t", "o", "k">>

EmptySummary == [byAction |-> <<>>, bySource |-> <<>>, byCountry |-> <<>>]

\* the response carries no errors, and no zone entry or a zone entry whose
\* three groupings are empty
NoGroupedEvents(resp) ==
  /\ resp.t = "json"
  /\ ~resp.data.errorsPresent
  /\ \/ resp.data.data.viewer.zones = <<>>
     \/ resp.data.data.viewer.zones = <<EmptySummary>>

\* C23: getSecurityEventsSummary, given a response without errors that has
\* no zone entry or a zone entry without grouped events, returns three empty
\* lists and does not throw
C23_EmptySummaryNotFailure ==
  (ret.fn = "getSecurityEventsSummary" /\ NoGroupedEvents(arg.resp))
    => (ret.result.ok /\ ret.result.value = EmptySummary)

\* the response had no zone entry, and three empty lists came back
C23_NoZoneEntry ==
  /\ ret.fn = "getSecurityEventsSummary"
  /\ arg.resp.t = "json"
  /\ ~arg.resp.data.errorsPresent
  /\ arg.resp.data.data.viewer.zones = <<>>
  /\ ret.result = Returned(EmptySummary)

\* the time value of an ISO date, in ms
DateParse(iso) ==
  iso.day * 86400000 + iso.hour * 3600000 + iso.minute * 60000
    + iso.second * 1000 + iso.ms

\* endTime - startTime of the window returned, in ms
WindowSpan == DateParse(ret.window.endTime) - DateParse(ret.window.startTime)

\* the minutes schema z.number().min(1).max(1440) accepts the argument
MinutesAccepted ==
  arg.num >= MinMinutes * arg.den /\ arg.num <= MaxMinutes * arg.den

ZeroMinutesWindow ==
  /\ ret.fn = "getTimeRange"
  /\ arg.num = 0
  /\ WindowSpan = 0

\* the provider's error texts with their sensitive parts redacted
RedactedError(message) ==
  CASE message = M_denied -> <<"r","e","q","u","e","s","t"," ","f","r","o","m"," ">> \o IpRedacted \o <<" ","d","e","n","i","e","d">>
    [] message = M_contact -> <<"c","o","n","t","a","c","t"," ">> \o EmailRedacted
    [] message = M_gql -> <<"z","o","n","e"," ">> \o IdRedacted \o <<" ","n","o","t"," ","a","u","t","h","o","r","i","z","e","d">>
    [] OTHER -> message

\* the redacted messages of errors[], in order, with ", " between them
RedactedJoin(errors) ==
  CASE Len(errors) = 0 -> <<>>
    [] Len(errors) = 1 -> RedactedError(errors[1].message)
    [] Len(errors) = 2 ->
         RedactedError(errors[1].message) \o <<",", " ">>
           \o RedactedError(errors[2].message)

\* C26: the REST primitive returns the envelope if and only if its success
\* flag is true; for success = false it throws "Cloudflare API error: " and
\* the sanitized, comma-joined messages of errors[], and returns nothing of
\* the failed envelope
C26_EnvelopeIffSuccess ==
  ret.fn = "request"
    => /\ ret.out.ok <=> arg.resp.data.success
       /\ arg.resp.data.success => ret.out.value = arg.resp.data
       /\ ~arg.resp.data.success
            => /\ DOMAIN ret.out = {"ok", "error"}
               /\ ret.out.error.message
                    = API_ERROR_PREFIX \o RedactedJoin(arg.resp.data.errors)

\* a failed envelope with two errors and a result: the result was dropped and
\* both messages are in the error text, redacted
C26_FailedEnvelopeWithResult ==
  /\ ret.fn = "request"
  /\ arg.resp.data = Envelope(FALSE, <<ApiErr(M_contact), ApiErr(M_denied)>>, Payload)
  /\ ~ret.out.ok
  /\ ret.out.error.message
       = API_ERROR_PREFIX \o <<"c","o","n","t","a","c","t"," ","[","R","E","D","A","C","T","E","D","_","E","M","A","I","L","]",","," ">>
           \o <<"r","e","q","u","e","s","t"," ","f","r","o","m"," ","[","R","E","D","A","C","T","E","D","_","I","P","]">>
           \o <<" ","d","e","n","i","e","d">>

\* C27: the GraphQL primitive throws "GraphQL error: " and the sanitized,
\* comma-joined messages when errors is present and not empty, data or no
\* data; when errors is absent or empty it returns the data field
C27_ErrorsBeforeData ==
  ret.fn = "graphqlRequest"
    => IF arg.resp.data.errorsPresent /\ arg.resp.data.errors # <<>>
       THEN /\ ~ret.out.ok
            /\ ret.out.error.message
                 = GRAPHQL_ERROR_PREFIX \o RedactedJoin(arg.resp.data.errors)
       ELSE ret.out = Returned(arg.resp.data.data)

\* a body with data and one error: the call failed, with the zone id of the
\* error message redacted
C27_DataAndErrors ==
  /\ ret.fn = "graphqlRequest"
  /\ arg.resp.data = GraphqlBody(ViewerData, TRUE, <<[message |-> M_gql]>>)
  /\ ~ret.out.ok
  /\ ret.out.error.message
       = <<"G","r","a","p","h","Q","L"," ","e","r","r","o","r",":"," ","z","o","n","e"," ","[","R","E","D","A","C","T","E","D","_","I","D","]"," ","n","o","t"," ","a","u","t","h","o","r","i","z","e","d">>

\* a path segment that is a literal of the template, and one that is the
\* k-th identifier
Lit(text) == [lit |-> Seg(text)]

IdAt(k) == [id |-> k]

\* the path each business method requests for well-formed identifiers
PathShape(method) ==
  CASE method = "getZone" -> <<Lit(S_zones), IdAt(1)>>
    [] method = "listRulesets" -> <<Lit(S_zones), IdAt(1), Lit(S_rulesets)>>
    [] method = "listAccountRulesets" ->
         <<Lit(S_accounts), IdAt(1), Lit(S_rulesets)>>
    [] method = "getRuleset" ->
         <<Lit(S_zones), IdAt(1), Lit(S_rulesets), IdAt(2)>>
    [] method = "getEntryPointRuleset" ->
         <<Lit(S_zones), IdAt(1), Lit(S_rulesets), Lit(S_phases), IdAt(2),
           Lit(S_entrypoint)>>
    [] method = "appendRule" ->
         <<Lit(S_zones), IdAt(1), Lit(S_rulesets), IdAt(2), Lit(S_rules)>>
    [] method \in {"updateCustomRule", "deleteCustomRule"} ->
         <<Lit(S_zones), IdAt(1), Lit(S_rulesets), IdAt(2), Lit(S_rules), IdAt(3)>>

\* the segments requested are as many as the method's path has, with its
\* literals where the path has them
SameShape(segments, shape) ==
  /\ Len(segments) = Len(shape)
  /\ \A k \in 1..Len(shape) :
        "lit" \in DOMAIN shape[k] => segments[k] = shape[k].lit

\* no identifier given is "." or ".."
NoDotIds == \A k \in DOMAIN arg.ids : arg.ids[k] \notin {X_oneDot, X_twoDots}

\* C28: whatever the identifiers (and the phase) a business method is given,
\* with '/', '?' or '..' in them, the URL it requests has as many path
\* segments as for well-formed identifiers, the literal ones in the same
\* positions
C28_PathShapeKept ==
  ret.fn = "fetch" => SameShape(ret.segments, PathShape(arg.method))

\* identifiers with a slash and a question mark keep the path: they are
\* percent-encoded into one segment each
SlashAndQueryEncoded ==
  (ret.fn = "fetch" /\ NoDotIds)
    => /\ SameShape(ret.segments, PathShape(arg.method))
       /\ \A k \in 1..Len(ret.segments) :
            "id" \in DOMAIN PathShape(arg.method)[k]
              => ret.segments[k]
                   = encodeURIComponent(arg.ids[PathShape(arg.method)[k].id])

\* getRuleset("..", "a/b") requested /rulesets/a%2Fb: the zone id took the
\* "zones" segment away
DotDotTookSegmentsAway ==
  /\ ret.fn = "fetch"
  /\ arg.method = "getRuleset"
  /\ arg.ids = <<X_twoDots, X_slash>>
  /\ ret.segments = <<Seg(S_rulesets), <<"a","%","2","F","b">>>>

\* the text has the word in it
Mentions(text, word) ==
  \E i \in 1..(Len(text) - Len(word) + 1) :
    SubSeq(text, i, i + Len(word) - 1) = word

\* the failure text says 404 or not found
SaysNotFound(error) ==
  \/ Mentions(error.message, <<"4","0","4">>)
  \/ Mentions(error.message, <<"n","o","t"," ","f","o","u","n","d">>)

\* the method and the path segments of a request
Target(r) == [method |-> r.method, path |-> Segments(PathOf(r.url))]

\* C29: createCustomRule issues the ruleset creation if and only if the fetch
\* of the entry-point ruleset failed with a message that has "404" or
\* "not found" in it; with any other failure it issues no further request and
\* the failure is rethrown; when the fetch succeeds it creates no ruleset and
\* appends to the ruleset fetched
C29_CreationIffNotFoundText ==
  [][\A s \in Sessions :
       (session[s].pc = "cr_entrypoint" /\ session'[s] # session[s])
         => \E o \in CfRest(session[s].wire, cf) :
              LET res == request(o.resp)
                  after == Continued(s)
              IN /\ cf' = o.st
                 /\ IF res.ok
                    THEN /\ after.pc = "cr_append"
                         /\ OperationNames(after) = FetchThenAppend
                         /\ Target(Issued(after))
                              = [method |-> "POST",
                                 path |-> <<Seg(S_zones), after.call.zoneId,
                                            Seg(S_rulesets), res.value.result.id,
                                            Seg(S_rules)>>]
                    ELSE IF SaysNotFound(res.error)
                    THEN /\ after.pc = "cr_create"
                         /\ OperationNames(after)
                              = <<"getEntryPointRuleset", "createRuleset">>
                         /\ Target(Issued(after))
                              = [method |-> "POST",
                                 path |-> <<Seg(S_zones), after.call.zoneId,
                                            Seg(S_rulesets)>>]
                    ELSE /\ after.pc = "done"
                         /\ OperationNames(after) = <<"getEntryPointRuleset">>
                         /\ after.apiThrown = res.error
                         /\ after.outcome
                              = TextResult(T_createFailed
                                             \o sanitizeErrorMessage(res.error.message),
                                           NoJson, FALSE)
    ]_vars

\* the provider worded the absence as "could not find entrypoint ruleset":
\* the call ended with that failure after the fetch, on a zone still without
\* a ruleset
C29_OtherWordingRethrown ==
  /\ Sent
  /\ Served.call.tool = "create_custom_rule"
  /\ Served.call.zoneId = ZONE_A
  /\ OperationNames(Served) = <<"getEntryPointRuleset">>
  /\ Served.apiThrown.message = API_ERROR_PREFIX \o M_notFoundB
  /\ Served.outcome.text = T_createFailed \o API_ERROR_PREFIX \o M_notFoundB
  /\ CustomRulesets(cf) = {}

\* the phase whose entry-point ruleset a list tool fetches
ListedPhase(tool) ==
  IF tool = "list_custom_rules" THEN PHASE_CUSTOM ELSE PHASE_MANAGED

ListFailureThrown ==
  /\ Sent
  /\ Served.call.tool = "list_managed_rulesets"
  /\ Served.outcome.kind = "thrown"
  /\ OperationNames(Served) = <<"getEntryPointRuleset">>
  /\ ~SaysNotFound(Served.apiThrown)

============================================================================
